---- MODULE Spec2Model ----
(***************************************************************************)
(* A model of the kanji video player: the subtitle timeline               *)
(* (src/docs/subtitle-parser.js), the playback glue, the position aligner, *)
(* the highlight compositor and the dictionary resolution                  *)
(* (src/video-player.js), and the dictionary helper (src/unnamed/part_000).*)
(*                                                                         *)
(* Strings are sequences of one-character strings.  Offsets are 0-based, as*)
(* in JavaScript; -1 is indexOf's "not found".  The letters used in sample *)
(* texts stand for: "T" 東, "K" 京, "O" 都, "n" に, "I" 行, "k" く, " " a    *)
(* blank.                                                                  *)
(***************************************************************************)
EXTENDS Integers, Sequences, FiniteSets, TLC

VARIABLES
    subtitles,      \* subtitleParser.subtitles: the timeline, in block order
    lookup,         \* the last findSubtitleAtTime call: its argument and result
    originalText,   \* enhanceWithKanjiPopups: the subtitle text of the pass
    segmentedWords, \* the analyzer's filtered words, in analyzer order
    wordIdx,        \* the aligner loop: index of the next word
    textIndex,      \* the aligner's cursor
    kanjiWords,     \* the word objects emitted so far
    tempDiv,        \* the markup tree being composited
    alignPc,        \* where the pass is: "align", "compose", "done"
    lkWords,        \* the words whose meanings the pass looks up, in order
    lkMeaning,      \* data.meaning of each of them
    lkIdx,          \* the lookup loop: index of the word being resolved
    lkPc,           \* "loop", the tier whose request is awaited, or "end"
    requests,       \* every dictionary request issued, in order
    tierLog,        \* the responses of the resolution in progress or last done
    rubyText,       \* the ruby-derived pass: its originalText
    rubyElements,   \* the base text of each ruby element of the display
    rubyIdx,        \* index of the next ruby element, then of the next word
    rubyWords,      \* the word objects taken from the ruby elements
    results,        \* findKanjiWords: the word objects found so far
    allWords,       \* the combined, sorted word objects
    rubyPc,         \* "ruby", "find", "combine", "done"
    currentSubtitle,\* the entry the player shows, an index or Null
    subtitleDisplay,\* what the display holds and for which entry
    subtitleArea,   \* style.display of the subtitle area
    kuroshiroReady, \* whether the converter has been initialised
    passes,         \* the display passes started, each with its position
    caught,         \* the errors caught in the passes: pass and place
    fileContent,    \* loadSubtitles: the content loaded last
    stampCase,      \* timeToMilliseconds: a time range and what it comes to
    tierCase,       \* one tier of lookupWholeWord: a response and its outcome
    textCase,       \* one call of processSubtitleText and what it comes to
    mergeCase       \* one tree-merge call of processNode and its output

timelineVars == <<subtitles, lookup>>
alignVars == <<originalText, segmentedWords, wordIdx, textIndex, kanjiWords,
               tempDiv, alignPc>>
lookupVars == <<lkWords, lkMeaning, lkIdx, lkPc, requests, tierLog>>
rubyVars == <<rubyText, rubyElements, rubyIdx, rubyWords, results, allWords,
              rubyPc>>
playerVars == <<currentSubtitle, subtitleDisplay, subtitleArea, kuroshiroReady,
                passes, caught>>
caseVars == <<fileContent, stampCase, tierCase, textCase, mergeCase>>
vars == <<subtitles, lookup, originalText, segmentedWords, wordIdx, textIndex,
          kanjiWords, tempDiv, alignPc, lkWords, lkMeaning, lkIdx, lkPc,
          requests, tierLog, rubyText, rubyElements, rubyIdx, rubyWords,
          results, allWords, rubyPc, currentSubtitle, subtitleDisplay,
          subtitleArea, kuroshiroReady, passes, caught, fileContent, stampCase,
          tierCase, textCase, mergeCase>>

\* ---------------------------------------------------------------- bounds
MaxTime == 2        \* times and interval bounds range over 0..MaxTime (ms)
MaxEntries == 2     \* entries in a timeline

\* ----------------------------------------------------------------- strings
EmptyString == <<>>
Whitespace == {" ", "\n", "\r"}
Kanji == {"T", "K", "O", "I"}     \* /[\u4e00-\u9faf\u3400-\u4dbf]/

\* String.prototype.substring(from, to), 0 <= from
Substring(s, from, to) ==
    IF to <= from THEN EmptyString
    ELSE SubSeq(s, from + 1, IF to > Len(s) THEN Len(s) ELSE to)

\* String.prototype.substr(from, length), 0 <= from
Substr(s, from, length) == Substring(s, from, from + length)

\* whether word occurs in s at offset p
OccursAt(s, word, p) ==
    /\ p >= 0
    /\ p + Len(word) <= Len(s)
    /\ \A k \in 1..Len(word) : s[p + k] = word[k]

\* String.prototype.indexOf(word, from): the least offset >= from at which
\* word occurs, -1 when there is none
RECURSIVE IndexOf(_, _, _)
IndexOf(s, word, from) ==
    IF from + Len(word) > Len(s) THEN -1
    ELSE IF OccursAt(s, word, from) THEN from
    ELSE IndexOf(s, word, from + 1)

\* a test for the empty string alone
OnlyEmpty(s) == s = EmptyString

\* !s || s.trim() === ''
IsBlank(s) == \A k \in 1..Len(s) : s[k] \in Whitespace

hasKanji(s) == \E k \in 1..Len(s) : s[k] \in Kanji

\* the idle values of the aligner's variables, for the specifications that
\* do not run it
AlignIdle ==
    /\ originalText = EmptyString
    /\ segmentedWords = <<>>
    /\ wordIdx = 1
    /\ textIndex = 0
    /\ kanjiWords = <<>>
    /\ tempDiv = <<>>
    /\ alignPc = "idle"

\* the idle values of the lookup loop's variables
LookupIdle ==
    /\ lkWords = <<>>
    /\ lkMeaning = <<>>
    /\ lkIdx = 1
    /\ lkPc = "idle"
    /\ requests = <<>>
    /\ tierLog = <<>>

\* the idle values of the ruby-derived pass's variables
RubyIdle ==
    /\ rubyText = EmptyString
    /\ rubyElements = <<>>
    /\ rubyIdx = 1
    /\ rubyWords = <<>>
    /\ results = <<>>
    /\ allWords = <<>>
    /\ rubyPc = "idle"

Null == 0           \* JavaScript null, as an index into a 1-based sequence

\* the display as the constructor finds it
NoDisplay == [kind |-> "empty", sub |-> Null]

\* no subtitle file loaded, no time range converted, no tier applied
NoContent == [blocks |-> <<>>, break |-> "LF"]
NoCase == [pc |-> "idle"]
CasesIdle ==
    /\ fileContent = NoContent
    /\ stampCase = NoCase
    /\ tierCase = NoCase
    /\ textCase = NoCase
    /\ mergeCase = NoCase

\* the idle values of the player's variables
PlayerIdle ==
    /\ currentSubtitle = Null
    /\ subtitleDisplay = NoDisplay
    /\ subtitleArea = "block"
    /\ kuroshiroReady = FALSE
    /\ caught = {}
    /\ passes = <<>>

\* ------------------------------------------------------------ the timeline
Times == 0..MaxTime
EntryTexts == {<<"T", "K">>, <<" ">>}
Entries == [start : Times, end : Times, text : EntryTexts]
Timelines == UNION {[1..n -> Entries] : n \in 0..MaxEntries}
NoLookup == [time |-> -1, result |-> Null]

\* the predicate of findSubtitleAtTime with the end bound exclusive
ContainsExclusiveEnd(subtitle, time) ==
    time >= subtitle.start /\ time < subtitle.end

\* subtitle => time >= subtitle.start && time <= subtitle.end
Contains(subtitle, time) ==
    time >= subtitle.start /\ time <= subtitle.end

\* Array.prototype.find: the first index whose element passes, else
\* undefined; `|| null` turns undefined into null (an entry is an object,
\* always truthy).  The result is the entry's index, Null for null.
RECURSIVE FindFrom(_, _, _)
FindFrom(subs, time, i) ==
    IF i > Len(subs) THEN Null
    ELSE IF Contains(subs[i], time) THEN i
    ELSE FindFrom(subs, time, i + 1)

findSubtitleAtTime(subs, time) == FindFrom(subs, time, 1)

\* one call of findSubtitleAtTime on the loaded timeline
FindSubtitleAtTime ==
    \E t \in Times :
        /\ lookup' = [time |-> t, result |-> findSubtitleAtTime(subtitles, t)]
        /\ UNCHANGED subtitles
        /\ UNCHANGED <<alignVars, lookupVars, rubyVars, playerVars, caseVars>>

InitTimeline ==
    /\ subtitles \in Timelines
    /\ lookup = NoLookup
    /\ AlignIdle
    /\ LookupIdle
    /\ RubyIdle
    /\ PlayerIdle
    /\ CasesIdle

NextTimeline == FindSubtitleAtTime

SpecTimeline == InitTimeline /\ [][NextTimeline]_vars

\* C1: findSubtitleAtTime(t) returns the first entry in load order whose
\* interval contains t, both bounds inclusive, and null exactly when no
\* entry's interval contains t.
C1_FirstContaining ==
    lookup # NoLookup =>
        LET t == lookup.time
            r == lookup.result
            hits == {i \in 1..Len(subtitles) :
                        subtitles[i].start <= t /\ t <= subtitles[i].end}
        IN  /\ (r = Null) <=> (hits = {})
            /\ r # Null => (r \in hits /\ \A j \in hits : r <= j)

\* a time on the inclusive end bound of two overlapping entries, the later
\* entry having the smaller start: the earlier-loaded entry is returned
C1_Witness ==
    /\ lookup # NoLookup
    /\ Len(subtitles) = 2
    /\ lookup.result = 1
    /\ lookup.time = subtitles[1].end
    /\ subtitles[2].start < subtitles[1].start
    /\ Contains(subtitles[2], lookup.time)

\* ------------------------------------------------- the position aligner
\* (src/video-player.js, enhanceWithKanjiPopups, lines 186-304)
MaxTextLen == 3     \* length of the generated subtitle texts
MaxWords == 2       \* words the analyzer returns for one subtitle

Chars == {"T", "K"}
SampleTexts ==
    {<<"T", "K", "n", "I", "k">>, <<"T", " ", "K">>, <<"T", "K", "O">>}
Texts == (UNION {[1..n -> Chars] : n \in 1..MaxTextLen}) \cup SampleTexts

SubstringsOf(s) ==
    {Substring(s, i, j) : <<i, j>> \in {p \in (0..Len(s)) \X (0..Len(s)) : p[1] < p[2]}}

\* the surface forms the analyzer may return for a text: its substrings
\* (in any order and number: tokens may be merged, repeated or reordered),
\* an empty and a blank token, and a form that is not in the text
AnalyzerWords(text) ==
    SubstringsOf(text) \cup {EmptyString, <<" ">>, <<"X">>}

WordLists(text) == UNION {[1..n -> AnalyzerWords(text)] : n \in 0..MaxWords}

\* a word object that keeps the cursor after the word for its position
WordObjAtCursor(word, position) ==
    [word |-> word, position |-> position + Len(word), length |-> Len(word)]

\* the word object pushed at lines 236-245 and 251-260; data.hiragana and
\* data.meaning do not take part in the alignment
WordObj(word, position) ==
    [word |-> word, position |-> position, length |-> Len(word)]

\* a cursor left at the start of the placed word
CursorAtStart(position, word) == position

\* textIndex = position + word.length (lines 248 and 263)
CursorAfter(position, word) == position + Len(word)

\* the aligner with no search from the start of the text
NoFallback(text, word) == -1

\* originalText.indexOf(word) (line 232)
PosFromStart(text, word) == IndexOf(text, word, 0)

\* one iteration of the loop of lines 222-265
AlignStep ==
    /\ alignPc = "align"
    /\ wordIdx <= Len(segmentedWords)
    /\ LET word == segmentedWords[wordIdx]
           position == IndexOf(originalText, word, textIndex)
           posFromStart == PosFromStart(originalText, word)
       IN  IF IsBlank(word)
           THEN UNCHANGED <<kanjiWords, textIndex>>
           ELSE IF position = -1
           THEN IF posFromStart = -1
                THEN UNCHANGED <<kanjiWords, textIndex>>
                ELSE /\ kanjiWords' = Append(kanjiWords, WordObj(word, posFromStart))
                     /\ textIndex' = CursorAfter(posFromStart, word)
           ELSE /\ kanjiWords' = Append(kanjiWords, WordObj(word, position))
                /\ textIndex' = CursorAfter(position, word)
    /\ wordIdx' = wordIdx + 1
    /\ UNCHANGED <<originalText, segmentedWords, tempDiv, alignPc>>
    /\ UNCHANGED <<timelineVars, lookupVars, rubyVars, playerVars, caseVars>>

\* the loop of lines 222-265 has ended
AlignEnd ==
    /\ alignPc = "align"
    /\ wordIdx > Len(segmentedWords)
    /\ alignPc' = "compose"
    /\ UNCHANGED <<originalText, segmentedWords, wordIdx, textIndex, kanjiWords,
                   tempDiv>>
    /\ UNCHANGED <<timelineVars, lookupVars, rubyVars, playerVars, caseVars>>

InitAlign ==
    /\ originalText \in Texts
    /\ segmentedWords \in WordLists(originalText)
    /\ wordIdx = 1
    /\ textIndex = 0
    /\ kanjiWords = <<>>
    /\ tempDiv = <<>>
    /\ alignPc = "align"
    /\ subtitles = <<>>
    /\ lookup = NoLookup
    /\ LookupIdle
    /\ RubyIdle
    /\ PlayerIdle
    /\ CasesIdle

Min(S) == CHOOSE p \in S : \A q \in S : p <= q

\* the offsets at which word occurs in text
Occurrences(text, word) == {p \in 0..Len(text) : OccursAt(text, word, p)}

C6_FallbackReached ==
    /\ Len(kanjiWords) = 2
    /\ kanjiWords[2].position < kanjiWords[1].position
    /\ textIndex = kanjiWords[2].position + kanjiWords[2].length
    /\ textIndex < kanjiWords[1].position + kanjiWords[1].length

\* ------------------------------------------------------- the markup tree
\* tempDiv's children after tempDiv.innerHTML = formattedHTML, in document
\* order.  A node is a text node [tag |-> "text", content], a highlight
\* wrapper [tag |-> "span", content, popup, src] (className kanji-word, its
\* popup child held in popup) or a reading element [tag |-> "ruby", kids,
\* rt]: kids are the text and span nodes of its base, rt stands for its rt
\* and rp children.  src is not part of the DOM: it records the offset in
\* the original text of the first character a wrapper covers.
TextNode(content) == [tag |-> "text", content |-> content]
SpanNode(content, popup, src) ==
    [tag |-> "span", content |-> content, popup |-> popup, src |-> src]
RubyNode(base) ==
    [tag |-> "ruby", kids |-> <<TextNode(base)>>, rt |-> <<"r">>]

\* the ways of cutting s into consecutive non-empty pieces
RECURSIVE Cuts(_)
Cuts(s) ==
    IF s = EmptyString THEN {<<>>}
    ELSE UNION {{<<Substring(s, 0, k)>> \o rest :
                    rest \in Cuts(Substring(s, k, Len(s)))} : k \in 1..Len(s)}

IsKanjiRun(s) == \A k \in 1..Len(s) : s[k] \in Kanji
IsPlainRun(s) == \A k \in 1..Len(s) : s[k] \notin Kanji

\* kuroshiro.convert(text, {mode: "furigana"}): every run of kanji becomes
\* one or more reading elements (one per token), every maximal run of other
\* characters one text node
FuriganaTrees(text) ==
    {[i \in 1..Len(cut) |->
        IF IsKanjiRun(cut[i]) THEN RubyNode(cut[i]) ELSE TextNode(cut[i])] :
     cut \in {c \in Cuts(text) :
                /\ \A i \in 1..Len(c) : IsKanjiRun(c[i]) \/ IsPlainRun(c[i])
                /\ \A i \in 1..(Len(c) - 1) :
                      ~(IsPlainRun(c[i]) /\ IsPlainRun(c[i + 1]))}}

\* processSubtitleText (lines 163-180) followed by the innerHTML assignment
\* of line 286: the converter's tree when the text has kanji, the text as one
\* text node when it has none or the converter throws
FormattedTrees(text) ==
    IF hasKanji(text)
    THEN FuriganaTrees(text) \cup {<<TextNode(text)>>}
    ELSE {<<TextNode(text)>>}

\* the text a node shows, the popup and the reading excluded
RECURSIVE Concat(_, _)
Concat(nodes, i) ==
    IF i > Len(nodes) THEN EmptyString
    ELSE (IF nodes[i].tag = "ruby" THEN Concat(nodes[i].kids, 1)
          ELSE nodes[i].content) \o Concat(nodes, i + 1)

BaseText(tree) == Concat(tree, 1)

\* every highlight wrapper of a tree, in document order
RECURSIVE SpansFrom(_, _)
SpansFrom(nodes, i) ==
    IF i > Len(nodes) THEN <<>>
    ELSE (IF nodes[i].tag = "ruby" THEN SpansFrom(nodes[i].kids, 1)
          ELSE IF nodes[i].tag = "span" THEN <<nodes[i]>>
          ELSE <<>>) \o SpansFrom(nodes, i + 1)

Spans(tree) == SpansFrom(tree, 1)

\* ------------------------------------------- the compositor, overlay mode
\* Array.prototype.sort (stable): the elements of seq ordered by the
\* comparator, equal ones in their order in seq; cmp[i, j] is the
\* comparator's value on seq[i] and seq[j]
SortedBy(seq, cmp) ==
    LET n == Len(seq)
        perm == CHOOSE p \in [1..n -> 1..n] :
                    /\ \A i, j \in 1..n : i # j => p[i] # p[j]
                    /\ \A i, j \in 1..n : i < j =>
                          \/ cmp[p[i], p[j]] < 0
                          \/ cmp[p[i], p[j]] = 0 /\ p[i] < p[j]
    IN  [i \in 1..n |-> seq[perm[i]]]

\* the comparator (a, b) => a.position - b.position (line 954; part_000
\* line 207)
CmpPositionOnly(a, b) == a.position - b.position

\* the comparator of lines 289-294: position ascending, then longer first
CmpKanjiWords(a, b) ==
    IF a.position # b.position THEN a.position - b.position
    ELSE b.length - a.length

\* the sort of lines 289-294
SortKanjiWords(words) ==
    SortedBy(words, [i \in 1..Len(words), j \in 1..Len(words) |->
                        CmpKanjiWords(words[i], words[j])])

\* the comparator of lines 372-375
CmpInNode(a, b) == a.position - b.position

\* the popup text of lines 416-427, built from wordObj.data; the aligner
\* leaves data.meaning to the lookups, so the popup is named by its word
Popup(wordObj) == wordObj.word

\* the text node below a node of a formatted tree
LeafText(node) ==
    IF node.tag = "ruby" THEN node.kids[1].content ELSE node.content

\* collectTextNodes (lines 461-478): the non-blank text nodes outside rt, rp
Collected(node) == ~IsBlank(LeafText(node))

\* lines 339-352: each collected text node's offset in the original text,
\* searched from the end of the previous match; -1 where it has none
RECURSIVE Locate(_, _, _, _)
Locate(tree, text, i, currentTextPosition) ==
    IF i > Len(tree) THEN <<>>
    ELSE IF ~Collected(tree[i])
    THEN <<-1>> \o Locate(tree, text, i + 1, currentTextPosition)
    ELSE LET position == IndexOf(text, LeafText(tree[i]), currentTextPosition)
         IN  IF position # -1
             THEN <<position>> \o
                  Locate(tree, text, i + 1, position + Len(LeafText(tree[i])))
             ELSE <<-1>> \o Locate(tree, text, i + 1, currentTextPosition)

\* the filter of lines 364-371
Relevant(word, nodePosition, nodeEndPosition) ==
    \/ word.position >= nodePosition /\ word.position < nodeEndPosition
    \/ word.position < nodePosition /\ word.position + word.length > nodePosition

\* Math.min(wordObj.length, availableLength) (line 393)
WordLengthInNode(wordObj, availableLength) ==
    IF wordObj.length < availableLength THEN wordObj.length ELSE availableLength

\* the loop of lines 384-434 and the remainder of lines 437-439
RECURSIVE Fragments(_, _, _, _, _, _)
Fragments(text, nodePosition, relevantWords, k, fragments, lastIndex) ==
    IF k > Len(relevantWords)
    THEN [fragments |->
            IF lastIndex < Len(text)
            THEN Append(fragments, TextNode(Substring(text, lastIndex, Len(text))))
            ELSE fragments,
          lastIndex |-> lastIndex]
    ELSE LET wordObj == relevantWords[k]
             wordStartInNode ==
                 IF wordObj.position - nodePosition > 0
                 THEN wordObj.position - nodePosition ELSE 0
             availableLength == Len(text) - wordStartInNode
             wordLengthInNode == WordLengthInNode(wordObj, availableLength)
         IN  IF wordStartInNode >= Len(text) \/ wordLengthInNode <= 0
             THEN Fragments(text, nodePosition, relevantWords, k + 1,
                            fragments, lastIndex)
             ELSE Fragments(text, nodePosition, relevantWords, k + 1,
                            fragments
                            \o (IF wordStartInNode > lastIndex
                                THEN <<TextNode(Substring(text, lastIndex,
                                                         wordStartInNode))>>
                                ELSE <<>>)
                            \o <<SpanNode(Substr(text, wordStartInNode,
                                                wordLengthInNode),
                                          Popup(wordObj),
                                          nodePosition + wordStartInNode)>>,
                            wordStartInNode + wordLengthInNode)

\* lines 355-453 for one collected text node: the nodes that replace it
HighlightLeaf(text, position, words) ==
    LET nodePosition == IF position = -1 THEN 0 ELSE position
        nodeEndPosition == nodePosition + Len(text)
        inNode == SelectSeq(words,
                      LAMBDA w : Relevant(w, nodePosition, nodeEndPosition))
        relevantWords ==
            SortedBy(inNode, [i \in 1..Len(inNode), j \in 1..Len(inNode) |->
                                 CmpInNode(inNode[i], inNode[j])])
        r == Fragments(text, nodePosition, relevantWords, 1, <<>>, 0)
    IN  IF Len(relevantWords) = 0 THEN <<TextNode(text)>>
        ELSE IF Len(r.fragments) > 0 /\ r.lastIndex > 0 THEN r.fragments
        ELSE <<TextNode(text)>>

\* applyHighlighting (lines 326-454) on a formatted tree
RECURSIVE HighlightFrom(_, _, _, _)
HighlightFrom(tree, positions, words, i) ==
    IF i > Len(tree) THEN <<>>
    ELSE (IF ~Collected(tree[i]) THEN <<tree[i]>>
          ELSE IF tree[i].tag = "ruby"
          THEN <<[tree[i] EXCEPT !.kids =
                     HighlightLeaf(LeafText(tree[i]), positions[i], words)]>>
          ELSE HighlightLeaf(LeafText(tree[i]), positions[i], words))
         \o HighlightFrom(tree, positions, words, i + 1)

applyHighlighting(tree, words, text) ==
    HighlightFrom(tree, Locate(tree, text, 1, 0), words, 1)

\* lines 277-300: nothing is written for an empty word list; otherwise the
\* text is converted again, the words are sorted and the highlighted tree
\* is built
Compose ==
    /\ alignPc = "compose"
    /\ alignPc' = "done"
    /\ IF Len(kanjiWords) = 0
       THEN UNCHANGED <<kanjiWords, tempDiv>>
       ELSE \E tree \in FormattedTrees(originalText) :
               /\ kanjiWords' = SortKanjiWords(kanjiWords)
               /\ tempDiv' = applyHighlighting(tree, kanjiWords', originalText)
    /\ UNCHANGED <<originalText, segmentedWords, wordIdx, textIndex>>
    /\ UNCHANGED <<timelineVars, lookupVars, rubyVars, playerVars, caseVars>>

NextAlign ==
    \/ AlignStep
    \/ AlignEnd
    \/ Compose

SpecAlign == InitAlign /\ [][NextAlign]_vars

\* the offsets of the original text a highlight wrapper covers
Covered(span) == span.src .. (span.src + Len(span.content) - 1)

\* C3: the base text of the composited tree (text nodes and wrapper texts
\* in document order, popups and readings excluded) is the original
\* subtitle text.  Overlay mode (applyHighlighting).
C3_RoundTripOverlay ==
    alignPc = "done" /\ Len(kanjiWords) > 0 => BaseText(tempDiv) = originalText

\* C4: in one composited render no character of the subtitle text is
\* covered by more than one highlight wrapper.
C4_NoDoubleCover ==
    alignPc = "done" =>
        \A i, j \in 1..Len(Spans(tempDiv)) :
            i # j => Covered(Spans(tempDiv)[i]) \cap Covered(Spans(tempDiv)[j]) = {}

\* --------------------------------------------- the dictionary resolution
\* (src/video-player.js, lookupWholeWord, lines 536-632, called from the
\* loop of enhanceWithKanjiPopups, lines 267-275)
MaxLkWords == 2     \* aligned words of the pass whose meanings are looked up
MaxMatches == 2     \* records in the matches array of one response

NoMeaning == "<null>"            \* data.meaning: null (lines 243, 258)
Missing == "<undefined>"         \* a match without a meaning field
NonString == "<number>"          \* a meaning that is no string: no trim()
NoDefinitionFound == "No definition found"
ErrorFetchingMeaning == "Error fetching meaning"
MatchMeanings == {Missing, "", " ", NonString, "m1", "m2"}

\* a record of data.matches: exact stands for m.word === word
Matches == [exact : BOOLEAN, meaning : MatchMeanings]
MatchLists == UNION {[1..n -> Matches] : n \in 0..MaxMatches}

\* what one request can come to: fetch rejects; the status is not ok;
\* response.json() rejects; the body is null; the body is an object whose
\* matches (absent, empty or not) are in matches
Responses ==
    {[kind |-> k, matches |-> <<>>] : k \in {"reject", "notOk", "badJson", "nullBody"}}
    \cup {[kind |-> "ok", matches |-> ms] : ms \in MatchLists}

LookupWords == {<<"T", "K">>, <<"U">>}
LookupLists == UNION {[1..n -> LookupWords] : n \in 1..MaxLkWords}

\* JavaScript truthiness of a meaning
Truthy(meaning) == meaning \notin {Missing, "", NoMeaning}

\* meaning && meaning.trim() !== '' where it does not throw
Usable(meaning) == Truthy(meaning) /\ meaning # NonString /\ meaning # " "

\* matches.find(m => [m.word === word &&] m.meaning && m.meaning.trim() !== ''):
\* the index found, 0 for undefined, -1 when the callback throws a TypeError
RECURSIVE FindWithMeaning(_, _, _)
FindWithMeaning(matches, i, exactOnly) ==
    IF i > Len(matches) THEN 0
    ELSE IF exactOnly /\ ~matches[i].exact
    THEN FindWithMeaning(matches, i + 1, exactOnly)
    ELSE IF ~Truthy(matches[i].meaning)
    THEN FindWithMeaning(matches, i + 1, exactOnly)
    ELSE IF matches[i].meaning = NonString THEN -1
    ELSE IF matches[i].meaning # " " THEN i
    ELSE FindWithMeaning(matches, i + 1, exactOnly)

\* the outcome of a tier: "return" with the meaning set, "next" to go on to
\* the code after the tier, "throw" into the catch of line 628
Outcome(kind, meaning) == [kind |-> kind, meaning |-> meaning]

\* whether the response makes the tier's code throw before the matches are
\* looked at: fetch or json() rejected, or data is null (data.matches throws)
Aborts(resp) == resp.kind \in {"reject", "badJson", "nullBody"}

\* lines 544-573: the inflected tier, meaning being data.meaning before it
InflectedTier(resp, meaning) ==
    IF Aborts(resp) THEN Outcome("throw", meaning)
    ELSE IF resp.kind = "notOk" \/ Len(resp.matches) = 0 THEN Outcome("next", meaning)
    ELSE LET exactMatchWithMeaning == FindWithMeaning(resp.matches, 1, TRUE)
             anyMatchWithMeaning == FindWithMeaning(resp.matches, 1, FALSE)
         IN  IF exactMatchWithMeaning = -1 THEN Outcome("throw", meaning)
             ELSE IF exactMatchWithMeaning > 0
             THEN Outcome("return", resp.matches[exactMatchWithMeaning].meaning)
             ELSE IF anyMatchWithMeaning = -1 THEN Outcome("throw", meaning)
             ELSE IF anyMatchWithMeaning > 0
             THEN Outcome("return", resp.matches[anyMatchWithMeaning].meaning)
             ELSE IF Truthy(resp.matches[1].meaning)
             THEN Outcome("next", resp.matches[1].meaning)
             ELSE Outcome("next", meaning)

\* lines 579-592: the direct tier
DirectTier(resp, meaning) ==
    IF Aborts(resp) THEN Outcome("throw", meaning)
    ELSE IF resp.kind = "notOk" \/ Len(resp.matches) = 0 THEN Outcome("next", meaning)
    ELSE LET matchWithMeaning == FindWithMeaning(resp.matches, 1, FALSE)
         IN  IF matchWithMeaning = -1 THEN Outcome("throw", meaning)
             ELSE IF matchWithMeaning > 0
             THEN Outcome("return", resp.matches[matchWithMeaning].meaning)
             ELSE Outcome("next", meaning)

\* lines 598-622: the partial tier
PartialTier(resp, meaning) ==
    IF Aborts(resp) THEN Outcome("throw", meaning)
    ELSE IF resp.kind = "notOk" \/ Len(resp.matches) = 0 THEN Outcome("next", meaning)
    ELSE LET exactPartialMatch == FindWithMeaning(resp.matches, 1, TRUE)
             anyPartialMatchWithMeaning == FindWithMeaning(resp.matches, 1, FALSE)
         IN  IF exactPartialMatch = -1 THEN Outcome("throw", meaning)
             ELSE IF exactPartialMatch > 0
             THEN Outcome("return", resp.matches[exactPartialMatch].meaning)
             ELSE IF anyPartialMatchWithMeaning = -1 THEN Outcome("throw", meaning)
             ELSE IF anyPartialMatchWithMeaning > 0
             THEN Outcome("return", resp.matches[anyPartialMatchWithMeaning].meaning)
             ELSE Outcome("next", meaning)

\* a default that keeps a blank meaning left by the inflected tier
KeepBlankMeaning(meaning) ==
    IF ~Truthy(meaning) THEN NoDefinitionFound ELSE meaning

\* lines 624-627: the default when no tier returned
DefaultMeaning(meaning) ==
    IF ~Truthy(meaning) \/ meaning = " " THEN NoDefinitionFound ELSE meaning

\* lines 628-631: the catch of lookupWholeWord
CaughtMeaning(meaning) == ErrorFetchingMeaning

\* encodeURIComponent(word) throws a URIError on a lone surrogate ("U")
Encodable(word) == \A k \in 1..Len(word) : word[k] # "U"

Tiers == <<"inflected", "direct", "partial">>

\* what the model keeps of a response once its tier has handled it: its
\* kind, the usable meanings its matches offered, whether an exact match
\* offered one, and whether a meaning was no string
Summary(resp) ==
    [kind |-> resp.kind,
     offered |-> {resp.matches[k].meaning : k \in
                     {n \in 1..Len(resp.matches) : Usable(resp.matches[n].meaning)}},
     exactOffered |-> \E k \in 1..Len(resp.matches) :
                         resp.matches[k].exact /\ Usable(resp.matches[k].meaning),
     malformed |-> \E k \in 1..Len(resp.matches) :
                      resp.matches[k].meaning = NonString]

Request(call, tier) == [call |-> call, tier |-> tier]

\* lookupWholeWord returns to the loop of lines 268-275 with data.meaning set
ReturnMeaning(meaning) ==
    /\ lkMeaning' = [lkMeaning EXCEPT ![lkIdx] = meaning]
    /\ lkIdx' = lkIdx + 1
    /\ lkPc' = "loop"

\* a loop that does not wait for the call before
NotAwaited(pc) == pc # "end"

\* await this.lookupWholeWord(wordObj) (line 271): the loop goes on to the
\* next word when the call has returned
PreviousReturned(pc) == pc = "loop"

\* the loop of lines 268-275 calls lookupWholeWord for the next word, which
\* runs to its first await: the inflected request (lines 537-542)
StartLookup ==
    /\ PreviousReturned(lkPc)
    /\ lkIdx <= Len(lkWords)
    /\ tierLog' = <<>>
    /\ IF Encodable(lkWords[lkIdx])
       THEN /\ requests' = Append(requests, Request(lkIdx, "inflected"))
            /\ lkPc' = "inflected"
            /\ UNCHANGED <<lkMeaning, lkIdx>>
       ELSE /\ ReturnMeaning(CaughtMeaning(lkMeaning[lkIdx]))
            /\ UNCHANGED requests
    /\ UNCHANGED lkWords
    /\ UNCHANGED <<timelineVars, alignVars, rubyVars, playerVars, caseVars>>

\* a resolution that goes from the inflected tier straight to the partial one
SkipDirect(tier) == "partial"

\* a resolution that asks the same tier again
RepeatTier(tier) == tier

\* the tier whose request follows a tier that did not return (lines 577-578
\* after the inflected tier, lines 596-597 after the direct tier)
NextTier(tier) == IF tier = "inflected" THEN "direct" ELSE "partial"

\* the code after a tier that did not return: the next request, or after
\* the partial tier the default of lines 624-627 and the return
AfterTier(tier, meaning) ==
    IF tier = "partial"
    THEN /\ ReturnMeaning(DefaultMeaning(meaning))
         /\ UNCHANGED requests
    ELSE /\ lkMeaning' = [lkMeaning EXCEPT ![lkIdx] = meaning]
         /\ requests' = Append(requests, Request(lkIdx, NextTier(tier)))
         /\ lkPc' = NextTier(tier)
         /\ UNCHANGED lkIdx

\* the continuation of lookupWholeWord once a tier's request has settled
Continue(tier, resp, outcome) ==
    /\ tierLog' = Append(tierLog, Summary(resp))
    /\ CASE outcome.kind = "return" ->
                ReturnMeaning(outcome.meaning) /\ UNCHANGED requests
         [] outcome.kind = "throw" ->
                ReturnMeaning(CaughtMeaning(outcome.meaning)) /\ UNCHANGED requests
         [] outcome.kind = "next" -> AfterTier(tier, outcome.meaning)
    /\ UNCHANGED lkWords
    /\ UNCHANGED <<timelineVars, alignVars, rubyVars, playerVars, caseVars>>

\* lines 542-576: the inflected request settles
InflectedResponse ==
    /\ lkPc = "inflected"
    /\ \E resp \in Responses :
          Continue("inflected", resp, InflectedTier(resp, lkMeaning[lkIdx]))

\* lines 577-595: the direct request settles
DirectResponse ==
    /\ lkPc = "direct"
    /\ \E resp \in Responses :
          Continue("direct", resp, DirectTier(resp, lkMeaning[lkIdx]))

\* lines 596-631: the partial request settles
PartialResponse ==
    /\ lkPc = "partial"
    /\ \E resp \in Responses :
          Continue("partial", resp, PartialTier(resp, lkMeaning[lkIdx]))

\* the loop of lines 268-275 has handled every word
LookupsEnd ==
    /\ lkPc = "loop"
    /\ lkIdx > Len(lkWords)
    /\ lkPc' = "end"
    /\ UNCHANGED <<lkWords, lkMeaning, lkIdx, requests, tierLog>>
    /\ UNCHANGED <<timelineVars, alignVars, rubyVars, playerVars, caseVars>>

InitLookup ==
    /\ lkWords \in LookupLists
    /\ lkMeaning = [i \in 1..Len(lkWords) |-> NoMeaning]
    /\ lkIdx = 1
    /\ lkPc = "loop"
    /\ requests = <<>>
    /\ tierLog = <<>>
    /\ subtitles = <<>>
    /\ lookup = NoLookup
    /\ AlignIdle
    /\ RubyIdle
    /\ PlayerIdle
    /\ CasesIdle

NextLookup ==
    \/ StartLookup
    \/ InflectedResponse
    \/ DirectResponse
    \/ PartialResponse
    \/ LookupsEnd

SpecLookup == InitLookup /\ [][NextLookup]_vars

\* the tiers requested by the call-th resolution, in order of issue
RequestsOf(call) ==
    LET mine == SelectSeq(requests, LAMBDA r : r.call = call)
    IN  [k \in 1..Len(mine) |-> mine[k].tier]

\* the resolution tierLog belongs to; 0 before the first
LoggedCall == IF lkPc \in {"inflected", "direct", "partial"} THEN lkIdx ELSE lkIdx - 1

\* that resolution has returned
Returned == lkPc \in {"loop", "end"} /\ lkIdx > 1

AllOffered == UNION {tierLog[k].offered : k \in 1..Len(tierLog)}

\* a response the tier's code cannot handle: the request rejected, the body
\* did not parse or was null, or a meaning was no string
Failed(entry) == entry.kind \in {"reject", "badJson", "nullBody"} \/ entry.malformed

\* C7: lookupWholeWord always completes with a non-blank string meaning: a
\* meaning some tier returned, or "No definition found" when all three tiers
\* responded without a usable meaning, or "Error fetching meaning" when a
\* failure aborted the resolution.
C7_MeaningAfterLookup ==
    Returned =>
        LET meaning == lkMeaning[lkIdx - 1]
        IN  /\ meaning \notin {NoMeaning, Missing, NonString, "", " "}
            /\ \/ meaning \in AllOffered
               \/ /\ meaning = NoDefinitionFound
                  /\ Len(tierLog) = 3
                  /\ \A k \in 1..3 : ~Failed(tierLog[k]) /\ tierLog[k].offered = {}
               \/ /\ meaning = ErrorFetchingMeaning
                  /\ \/ ~Encodable(lkWords[lkIdx - 1])
                     \/ \E k \in 1..Len(tierLog) : Failed(tierLog[k])

\* the inflected response was ok without a usable meaning, the direct
\* status was not ok and the partial tier offered nothing: the default applied
C7_Witness ==
    /\ Returned
    /\ lkMeaning[lkIdx - 1] = NoDefinitionFound
    /\ Len(tierLog) = 3
    /\ tierLog[1].kind = "ok"
    /\ tierLog[2].kind = "notOk"

\* C8: the requests of one resolution are issued in the order inflected,
\* direct, partial, at most one per tier; a tier is requested only if every
\* earlier tier responded without a usable meaning; an inflected response
\* with an exact match that has a usable meaning ends the resolution after
\* that one request.
C8_TierOrder ==
    /\ \A call \in 1..Len(lkWords) :
          RequestsOf(call) = SubSeq(Tiers, 1, Len(RequestsOf(call)))
    /\ LoggedCall >= 1 =>
          /\ \A k \in 2..Len(RequestsOf(LoggedCall)) :
                /\ k - 1 <= Len(tierLog)
                /\ ~Failed(tierLog[k - 1])
                /\ tierLog[k - 1].offered = {}
          /\ Len(tierLog) >= 1 /\ tierLog[1].exactOffered =>
                Len(RequestsOf(LoggedCall)) = 1 /\ Returned

\* the inflected response held an exact match with a usable meaning
C8_Witness ==
    /\ Returned
    /\ Len(tierLog) = 1
    /\ tierLog[1].exactOffered
    /\ ~tierLog[1].malformed
    /\ RequestsOf(lkIdx - 1) = <<"inflected">>
    /\ lkMeaning[lkIdx - 1] \in tierLog[1].offered

\* C9: a request that rejects or a body that does not parse at one tier
\* counts as that tier producing nothing, and the next tier is still
\* requested.
C9_TierFailureFallsThrough ==
    LoggedCall >= 1 =>
        \A k \in 1..Len(tierLog) :
            tierLog[k].kind \in {"reject", "badJson"} /\ k < 3 =>
                Len(RequestsOf(LoggedCall)) > k

\* C10: a word that was resolved earlier in the session is resolved again
\* without any request and with the same meaning.
C10_SecondResolutionCached ==
    \A i, j \in 1..Len(lkWords) :
        i < j /\ lkWords[i] = lkWords[j] =>
            /\ RequestsOf(j) = <<>>
            /\ j < lkIdx => lkMeaning[j] = lkMeaning[i]

\* -------------------------------------- the ruby-derived word extraction
\* (src/video-player.js, the second enhanceWithKanjiPopups, lines 823-968,
\* and src/unnamed/part_000, findKanjiWords and lookupIndividualKanji)
MaxRuby == 2        \* ruby elements in the display markup

\* s.replace(/[()]/g, '')
RemoveParens(s) == SelectSeq(s, LAMBDA c : c \notin {"(", ")"})

\* String.prototype.trim
RECURSIVE Trim(_)
Trim(s) ==
    IF s = EmptyString THEN s
    ELSE IF Head(s) \in Whitespace THEN Trim(Tail(s))
    ELSE IF s[Len(s)] \in Whitespace THEN Trim(SubSeq(s, 1, Len(s) - 1))
    ELSE s

\* getRubyBase (lines 1215-1240) on the text of the children of a ruby
\* element that are neither rt nor rp
getRubyBase(childText) == Trim(RemoveParens(childText))

\* the texts of the ruby-derived pass
RubyTexts == SampleTexts

\* the child text a ruby element of the display may hold for a text: a
\* part of the text, a base the text holds only with something in between
\* (the display is parsed markup, originalText the raw text), a base in
\* parentheses, a blank one
ChildTexts(text) ==
    SubstringsOf(text) \cup {<<"T", "K">>, <<"(", "T", ")">>, <<" ">>}

RubyLists(text) == UNION {[1..n -> ChildTexts(text)] : n \in 0..MaxRuby}

\* position = originalText.indexOf(word), 0 when it is -1 (lines 862-870;
\* part_000 lines 115-120)
DefaultPosition(text, word) ==
    IF IndexOf(text, word, 0) = -1 THEN 0 ELSE IndexOf(text, word, 0)

\* one iteration of the loop of lines 846-900
RubyElement ==
    /\ rubyPc = "ruby"
    /\ rubyIdx <= Len(rubyElements)
    /\ LET baseText == getRubyBase(rubyElements[rubyIdx])
           word == RemoveParens(Trim(baseText))
       IN  IF IsBlank(baseText)
           THEN UNCHANGED rubyWords
           ELSE IF \E k \in 1..Len(rubyWords) : rubyWords[k].word = word
           THEN UNCHANGED rubyWords
           ELSE rubyWords' =
                    Append(rubyWords, WordObj(word, DefaultPosition(rubyText, word)))
    /\ rubyIdx' = rubyIdx + 1
    /\ UNCHANGED <<rubyText, rubyElements, results, allWords, rubyPc>>
    /\ UNCHANGED <<timelineVars, alignVars, lookupVars, playerVars, caseVars>>

\* the loop has ended; the meanings are looked up (lines 903-925, which
\* leave the positions alone) and findKanjiWords is called (line 933), which
\* returns at once for a blank text or one without kanji (lines 55-67)
RubyEnd ==
    /\ rubyPc = "ruby"
    /\ rubyIdx > Len(rubyElements)
    /\ rubyIdx' = 1
    /\ rubyPc' = IF IsBlank(rubyText) \/ ~hasKanji(rubyText) THEN "combine" ELSE "find"
    /\ UNCHANGED <<rubyText, rubyElements, rubyWords, results, allWords>>
    /\ UNCHANGED <<timelineVars, alignVars, lookupVars, playerVars, caseVars>>

\* results.sort((a, b) => a.position - b.position) (part_000 line 207;
\* src/video-player.js line 954)
SortByPosition(words) ==
    SortedBy(words, [i \in 1..Len(words), j \in 1..Len(words) |->
                        CmpPositionOnly(words[i], words[j])])

\* lookupIndividualKanji (part_000 lines 222-330) for a word with kanji:
\* found says whether any of its kanji got a meaning; the word is pushed at
\* text.indexOf(word) (lines 314-326)
lookupIndividualKanji(word, text, found) ==
    IF found THEN Append(results, WordObj(word, IndexOf(text, word, 0))) ELSE results

\* one iteration of the loop of part_000 lines 76-148: the search for the
\* word has matches, or it has none, is not ok or fails
FindWord ==
    /\ rubyPc = "find"
    /\ rubyIdx <= Len(rubyWords)
    /\ LET word == rubyWords[rubyIdx].word
       IN  IF ~hasKanji(word)
           THEN UNCHANGED results
           ELSE \E matched \in BOOLEAN, found \in BOOLEAN :
                    results' =
                        IF matched
                        THEN Append(results,
                                    WordObj(word, DefaultPosition(rubyText, word)))
                        ELSE lookupIndividualKanji(word, rubyText, found)
    /\ rubyIdx' = rubyIdx + 1
    /\ UNCHANGED <<rubyText, rubyElements, rubyWords, allWords, rubyPc>>
    /\ UNCHANGED <<timelineVars, alignVars, lookupVars, playerVars, caseVars>>

\* the offsets (0-based) of the first occurrence of each kanji of the text
\* (part_000 lines 157-167)
FirstKanjiOffsets(text) ==
    {k \in 0..(Len(text) - 1) :
        text[k + 1] \in Kanji /\ IndexOf(text, <<text[k + 1]>>, 0) = k}

\* the scan of part_000 lines 154-203: answered holds the offsets of the
\* kanji whose search had matches
StandaloneKanji(text, answered) ==
    LET offsets == SelectSeq([k \in 1..Len(text) |-> k - 1],
                             LAMBDA k : k \in answered)
    IN  [i \in 1..Len(offsets) |->
            WordObj(<<text[offsets[i] + 1]>>,
                    IndexOf(text, <<text[offsets[i] + 1]>>, 0))]

\* the loop has ended: the scan when nothing was found, the sort, the return
FindEnd ==
    /\ rubyPc = "find"
    /\ rubyIdx > Len(rubyWords)
    /\ IF Len(results) = 0
       THEN \E answered \in SUBSET FirstKanjiOffsets(rubyText) :
                results' = SortByPosition(StandaloneKanji(rubyText, answered))
       ELSE results' = SortByPosition(results)
    /\ rubyPc' = "combine"
    /\ UNCHANGED <<rubyText, rubyElements, rubyIdx, rubyWords, allWords>>
    /\ UNCHANGED <<timelineVars, alignVars, lookupVars, playerVars, caseVars>>

\* a combination that takes every found word
AppendAll(words, found, i) == words \o found

\* lines 939-944: the found words that wordDataMap does not hold yet
RECURSIVE AddNew(_, _, _)
AddNew(words, found, i) ==
    IF i > Len(found) THEN words
    ELSE IF \E k \in 1..Len(words) : words[k].word = found[i].word
    THEN AddNew(words, found, i + 1)
    ELSE AddNew(Append(words, found[i]), found, i + 1)

\* lines 935-954: the ruby words and the found words, combined and sorted
Combine ==
    /\ rubyPc = "combine"
    /\ allWords' = SortByPosition(AddNew(rubyWords, results, 1))
    /\ rubyPc' = "done"
    /\ UNCHANGED <<rubyText, rubyElements, rubyIdx, rubyWords, results>>
    /\ UNCHANGED <<timelineVars, alignVars, lookupVars, playerVars, caseVars>>

InitRuby ==
    /\ rubyText \in RubyTexts
    /\ rubyElements \in RubyLists(rubyText)
    /\ rubyIdx = 1
    /\ rubyWords = <<>>
    /\ results = <<>>
    /\ allWords = <<>>
    /\ rubyPc = "ruby"
    /\ subtitles = <<>>
    /\ lookup = NoLookup
    /\ AlignIdle
    /\ LookupIdle
    /\ PlayerIdle
    /\ CasesIdle

NextRuby ==
    \/ RubyElement
    \/ RubyEnd
    \/ FindWord
    \/ FindEnd
    \/ Combine

SpecRuby == InitRuby /\ [][NextRuby]_vars

\* whether a word object lies within the text it was resolved against
InText(wordObj, text) ==
    0 <= wordObj.position /\ wordObj.position + wordObj.length <= Len(text)

\* C5: every word object produced for a subtitle, by the tokenizer-based
\* aligner, by the ruby-derived variant and by findKanjiWords and
\* lookupIndividualKanji, has 0 <= position and position + length at most
\* the length of the text it was resolved against.
C5_WordsInText ==
    /\ \A k \in 1..Len(kanjiWords) : InText(kanjiWords[k], originalText)
    /\ \A k \in 1..Len(rubyWords) : InText(rubyWords[k], rubyText)
    /\ \A k \in 1..Len(results) : InText(results[k], rubyText)
    /\ \A k \in 1..Len(allWords) : InText(allWords[k], rubyText)

\* ------------------------------------------------------ the playback glue
\* (src/video-player.js, checkSubtitles, lines 127-156, and the awaits of
\* processSubtitleText and enhanceWithKanjiPopups, lines 163-304)
MaxPasses == 2      \* display passes started in one run

\* the timelines the player is run on: two entries one after the other,
\* the second with or without kanji, an entry followed by a gap and a blank
\* entry, two overlapping entries
PlayerTimelines ==
    {<<[start |-> 0, end |-> 0, text |-> <<"T", "K">>],
       [start |-> 1, end |-> 1, text |-> <<"T", "K">>]>>,
     <<[start |-> 0, end |-> 0, text |-> <<"T", "K">>],
       [start |-> 1, end |-> 1, text |-> <<"n", "k">>]>>,
     <<[start |-> 0, end |-> 0, text |-> <<"T", "K">>],
       [start |-> 2, end |-> 2, text |-> <<" ">>]>>,
     <<[start |-> 0, end |-> 1, text |-> <<"T", "K">>],
       [start |-> 1, end |-> 2, text |-> <<"T", "K">>]>>}

\* a display pass: the entry it was started for, the call it awaits
\* ("convert" and "convert2": kuroshiro.convert, "parse": analyzer.parse,
\* "lookup": lookupWholeWord) or "done", and the words whose lookup is still
\* to come.  A timeupdate event is dispatched only between tasks: an await
\* of processSubtitleText that returns the text as it is (lines 164-166 and
\* 179) is over before the next event, and is one step with what follows it.
Pass(sub, pc, left) == [sub |-> sub, pc |-> pc, left |-> left]

\* what the display holds after a write of a pass
Display(kind, sub) == [kind |-> kind, sub |-> sub]

\* initializeKuroshiro completes (lines 39-53)
InitializeKuroshiro ==
    /\ ~kuroshiroReady
    /\ kuroshiroReady' = TRUE
    /\ UNCHANGED <<subtitles, lookup, currentSubtitle, subtitleDisplay,
                   subtitleArea, passes, caught>>
    /\ UNCHANGED <<alignVars, lookupVars, rubyVars, caseVars>>

\* whether processSubtitleText(text) awaits kuroshiro.convert (lines 164-174)
Converts(text) == kuroshiroReady /\ hasKanji(text)

\* where enhanceWithKanjiPopups waits first (lines 186-198): at
\* analyzer.parse, or nowhere without an analyzer: it returns at line 277
EnhanceFrom == IF kuroshiroReady THEN "parse" ELSE "done"

\* a handler that takes every looked-up entry for a new one
NeverSame(subtitle, current) == FALSE

\* subtitle !== this.currentSubtitle (line 132), negated: entries are
\* compared by identity, null equals null only
SameEntry(subtitle, current) == subtitle = current

\* a timeupdate event: checkSubtitles (lines 127-156) up to the first call
\* it has to wait for
TimeUpdate ==
    /\ \E currentTime \in Times :
          LET subtitle == findSubtitleAtTime(subtitles, currentTime)
          IN  /\ lookup' = [time |-> currentTime, result |-> subtitle]
              /\ IF SameEntry(subtitle, currentSubtitle)
                 THEN UNCHANGED <<currentSubtitle, subtitleDisplay, subtitleArea, passes>>
                 ELSE
                   /\ currentSubtitle' = subtitle
                   /\ IF subtitle = Null \/ IsBlank(subtitles[subtitle].text)
                      THEN /\ subtitleDisplay' = NoDisplay
                           /\ subtitleArea' = "none"
                           /\ UNCHANGED passes
                      ELSE /\ Len(passes) < MaxPasses
                           /\ subtitleArea' = "block"
                           /\ IF Converts(subtitles[subtitle].text)
                              THEN /\ passes' = Append(passes, Pass(subtitle, "convert", 0))
                                   /\ UNCHANGED subtitleDisplay
                              ELSE /\ subtitleDisplay' = Display("reading", subtitle)
                                   /\ passes' = Append(passes, Pass(subtitle, EnhanceFrom, 0))
    /\ UNCHANGED <<subtitles, kuroshiroReady, caught>>
    /\ UNCHANGED <<alignVars, lookupVars, rubyVars, caseVars>>

\* the pass p moves on to position pc with left lookups to come
Advance(p, pc, left) == passes' = [passes EXCEPT ![p] = Pass(passes[p].sub, pc, left)]

\* kuroshiro.convert has settled for checkSubtitles: the reading markup is
\* written and enhanceWithKanjiPopups is called (lines 147-150)
ConvertDone ==
    /\ \E p \in 1..Len(passes) :
          /\ passes[p].pc = "convert"
          /\ subtitleDisplay' = Display("reading", passes[p].sub)
          /\ Advance(p, EnhanceFrom, 0)
    /\ UNCHANGED <<subtitles, lookup, currentSubtitle, subtitleArea, kuroshiroReady,
                   caught>>
    /\ UNCHANGED <<alignVars, lookupVars, rubyVars, caseVars>>

\* a pass that goes on to the conversion and the write with no word
AlwaysCompose(n) == IF n = 0 THEN "convert2" ELSE "lookup"

\* where the pass goes with n aligned words: the loop of lines 268-275
\* awaits the first lookup, or with no word the pass returns at lines 277-279
AfterAlign(n) == IF n = 0 THEN "done" ELSE "lookup"

\* an error caught in pass p: at analyzer.parse by the catch of lines
\* 212-214 ("parse"), or in the code that builds and writes the highlighted
\* tree by the catch of lines 301-303 ("compose")
Caught(p, place) == [pass |-> p, place |-> place]

\* an alignment that finds words although the analyzer failed
CountsDespiteError(rejected) == 0..MaxLkWords

\* the numbers of aligned words after analyzer.parse: when it rejects or
\* throws, segmentedWords stays empty (lines 188, 212-214), so does kanjiWords
WordCounts(rejected) == IF rejected THEN {0} ELSE 0..MaxLkWords

\* analyzer.parse has settled: the words are aligned (lines 199-265) and the
\* first lookup is awaited (line 271), or the pass returns without words
ParseDone ==
    /\ \E p \in 1..Len(passes) :
          /\ passes[p].pc = "parse"
          /\ \E rejected \in BOOLEAN :
                /\ \E n \in WordCounts(rejected) : Advance(p, AfterAlign(n), n)
                /\ caught' = IF rejected THEN caught \cup {Caught(p, "parse")}
                             ELSE caught
    /\ UNCHANGED <<subtitles, lookup, currentSubtitle, subtitleDisplay,
                   subtitleArea, kuroshiroReady>>
    /\ UNCHANGED <<alignVars, lookupVars, rubyVars, caseVars>>

\* lines 285-303: the tree is built, the words are sorted and highlighted
\* and the display is written, unless something throws on the way, which
\* the catch of lines 301-303 logs
WriteHighlighted(p) ==
    \E thrown \in BOOLEAN :
        IF thrown
        THEN /\ UNCHANGED subtitleDisplay
             /\ caught' = caught \cup {Caught(p, "compose")}
        ELSE /\ subtitleDisplay' = Display("highlighted", passes[p].sub)
             /\ UNCHANGED caught

\* lookupWholeWord has returned for a word (lines 268-275): the next lookup
\* is awaited, or after the last one processSubtitleText (line 282) and,
\* when that has nothing to convert, the highlighted tree is written
LookupDone ==
    /\ \E p \in 1..Len(passes) :
          /\ passes[p].pc = "lookup"
          /\ IF passes[p].left > 1
             THEN /\ Advance(p, "lookup", passes[p].left - 1)
                  /\ UNCHANGED <<subtitleDisplay, caught>>
             ELSE IF Converts(subtitles[passes[p].sub].text)
             THEN /\ Advance(p, "convert2", 0)
                  /\ UNCHANGED <<subtitleDisplay, caught>>
             ELSE /\ Advance(p, "done", 0)
                  /\ WriteHighlighted(p)
    /\ UNCHANGED <<subtitles, lookup, currentSubtitle, subtitleArea, kuroshiroReady>>
    /\ UNCHANGED <<alignVars, lookupVars, rubyVars, caseVars>>

\* kuroshiro.convert has settled for enhanceWithKanjiPopups: the
\* highlighted tree is written to the display (lines 282-300)
HighlightDone ==
    /\ \E p \in 1..Len(passes) :
          /\ passes[p].pc = "convert2"
          /\ WriteHighlighted(p)
          /\ Advance(p, "done", 0)
    /\ UNCHANGED <<subtitles, lookup, currentSubtitle, subtitleArea, kuroshiroReady>>
    /\ UNCHANGED <<alignVars, lookupVars, rubyVars, caseVars>>

Init ==
    /\ subtitles \in PlayerTimelines
    /\ lookup = NoLookup
    /\ PlayerIdle
    /\ AlignIdle
    /\ LookupIdle
    /\ RubyIdle
    /\ CasesIdle

Next ==
    \/ InitializeKuroshiro
    \/ TimeUpdate
    \/ ConvertDone
    \/ ParseDone
    \/ LookupDone
    \/ HighlightDone

Spec == Init /\ [][Next]_vars

\* C2: a display pass started for an entry writes the display (the reading
\* markup and the highlighted tree) only while currentSubtitle is still
\* that entry; once currentSubtitle has changed, the pass writes nothing.
C2_NoStaleWrite ==
    [][(subtitleDisplay' # subtitleDisplay /\ subtitleDisplay'.kind # "empty")
          => subtitleDisplay'.sub = currentSubtitle']_vars

\* --------------------------------------------------------- the SRT parser
\* (src/docs/subtitle-parser.js, parseSRT, lines 14-51, and
\* timeToMilliseconds, lines 58-63)
Newline == "\n"
Return == "\r"
Digits == <<"0", "1", "2", "3", "4", "5", "6", "7", "8", "9">>
IsDigit(c) == \E d \in 1..Len(Digits) : Digits[d] = c
DigitValue(c) == (CHOOSE d \in 1..Len(Digits) : Digits[d] = c) - 1

\* content.replace(/\r\n|\r|\n/g, '\n') (line 18): the line feed of a
\* CR LF pair goes, every remaining CR becomes a line feed
NormalizeLineBreaks(s) ==
    LET kept == SelectSeq([k \in 1..Len(s) |-> k],
                          LAMBDA k : ~(s[k] = Newline /\ k > 1 /\ s[k - 1] = Return))
    IN  [i \in 1..Len(kept) |-> IF s[kept[i]] = Return THEN Newline ELSE s[kept[i]]]

\* the offset of the first occurrence of separator in s, -1 without one
FirstOffset(s, separator) ==
    LET offsets == {p \in 0..Len(s) : OccursAt(s, separator, p)}
    IN  IF offsets = {} THEN -1 ELSE CHOOSE p \in offsets : \A q \in offsets : p <= q

\* String.prototype.split(separator), the separator not empty
RECURSIVE Split(_, _)
Split(s, separator) ==
    LET at == FirstOffset(s, separator)
    IN  IF at = -1 THEN <<s>>
        ELSE <<Substring(s, 0, at)>>
                 \o Split(SubSeq(s, at + Len(separator) + 1, Len(s)), separator)

\* Array.prototype.join(separator)
RECURSIVE Join(_, _)
Join(parts, separator) ==
    IF Len(parts) = 0 THEN EmptyString
    ELSE IF Len(parts) = 1 THEN parts[1]
    ELSE parts[1] \o separator \o Join(Tail(parts), separator)

\* Number(s) for a string of digits, and parseInt(s) for one that starts
\* with digits: the base-10 value of the leading digits
RECURSIVE DecimalFrom(_, _)
DecimalFrom(s, value) ==
    IF s = EmptyString \/ ~IsDigit(Head(s)) THEN value
    ELSE DecimalFrom(Tail(s), value * 10 + DigitValue(Head(s)))

Number(s) == DecimalFrom(s, 0)
parseInt(s) == DecimalFrom(s, 0)

\* the destructuring of lines 59-60: the string is split at the comma and
\* its first part at the colons
TimeFields(timeString) ==
    LET parts == Split(timeString, <<",">>)
        time == parts[1]
        fields == Split(time, <<":">>)
    IN  [hours |-> Number(fields[1]), minutes |-> Number(fields[2]),
         seconds |-> Number(fields[3]), milliseconds |-> parts[2]]

\* a conversion that validates ranges, minutes and seconds kept below 60
ClockMilliseconds(timeString) ==
    LET f == TimeFields(timeString)
    IN  (f.hours * 3600 + (f.minutes % 60) * 60 + (f.seconds % 60)) * 1000
            + parseInt(f.milliseconds)

\* timeToMilliseconds (lines 58-63)
timeToMilliseconds(timeString) ==
    LET f == TimeFields(timeString)
    IN  (f.hours * 3600 + f.minutes * 60 + f.seconds) * 1000
            + parseInt(f.milliseconds)

\* the pattern of line 34, "d" standing for \d
TimePattern ==
    <<"d", "d", ":", "d", "d", ":", "d", "d", ",", "d", "d", "d">>
RangePattern == TimePattern \o <<" ", "-", "-", ">", " ">> \o TimePattern

\* whether the pattern matches s at offset p
MatchesAt(s, pattern, p) ==
    /\ p + Len(pattern) <= Len(s)
    /\ \A k \in 1..Len(pattern) :
          IF pattern[k] = "d" THEN IsDigit(s[p + k]) ELSE s[p + k] = pattern[k]

\* timestampLine.match(...) (line 34): the offset of the leftmost match,
\* -1 for null
RECURSIVE MatchFrom(_, _)
MatchFrom(s, p) ==
    IF p + Len(RangePattern) > Len(s) THEN -1
    ELSE IF MatchesAt(s, RangePattern, p) THEN p
    ELSE MatchFrom(s, p + 1)

\* the entry pushed at lines 43-47
Entry(start, end, text) == [start |-> start, end |-> end, text |-> text]

\* a parse that adds to the entries of the file before
KeepEntries(previous) == previous

\* the timeline parseSRT starts from (line 15), whatever was loaded before
FreshTimeline(previous) == <<>>

\* an entry put before the entries of the earlier blocks
Unshift(subs, entry) == <<entry>> \o subs

\* this.subtitles.push(entry) (lines 43-47)
Push(subs, entry) == Append(subs, entry)

\* a loop that takes a block of two lines
NoSecondLine(lines) == Len(lines) < 2

\* the test of line 28 on the lines of a block
TooShort(lines) == Len(lines) < 3

\* one iteration of the loop of lines 23-48: the timeline after the block
ParseBlock(subs, block) ==
    LET lines == Split(block, <<Newline>>)
        timestampLine == lines[2]
        timeMatch == MatchFrom(timestampLine, 0)
        startTime == timeToMilliseconds(
                         Substr(timestampLine, timeMatch, Len(TimePattern)))
        endTime == timeToMilliseconds(
                       Substr(timestampLine,
                              timeMatch + Len(RangePattern) - Len(TimePattern),
                              Len(TimePattern)))
        text == Join(SubSeq(lines, 3, Len(lines)), <<" ">>)
    IN  IF TooShort(lines) THEN subs
        ELSE IF timeMatch = -1 THEN subs
        ELSE Push(subs, Entry(startTime, endTime, text))

RECURSIVE ParseBlocks(_, _, _)
ParseBlocks(subs, subtitleBlocks, i) ==
    IF i > Len(subtitleBlocks) THEN subs
    ELSE ParseBlocks(ParseBlock(subs, subtitleBlocks[i]), subtitleBlocks, i + 1)

\* lines 17-48: the entries pushed for a content, in the order pushed
PushedEntries(srt) ==
    LET normalizedContent == NormalizeLineBreaks(srt)
        subtitleBlocks == Split(Trim(normalizedContent), <<Newline, Newline>>)
    IN  ParseBlocks(<<>>, subtitleBlocks, 1)

\* parseSRT (lines 14-51) with the timeline of before the call
parseSRT(previous, srt) == FreshTimeline(previous) \o PushedEntries(srt)

\* ------------------------------------------------- subtitle files to load
\* a timestamp by its components, and its text HH:MM:SS,mmm
Stamp(h, m, s, ms) == [h |-> h, m |-> m, s |-> s, ms |-> ms]
TwoDigits(n) == <<Digits[(n \div 10) + 1], Digits[(n % 10) + 1]>>
ThreeDigits(n) == <<Digits[(n \div 100) + 1]>> \o TwoDigits(n % 100)
StampText(t) ==
    TwoDigits(t.h) \o <<":">> \o TwoDigits(t.m) \o <<":">> \o TwoDigits(t.s)
        \o <<",">> \o ThreeDigits(t.ms)

\* a line of a file: plain text, or a time range with text around it
TextLine(chars) == [kind |-> "text", chars |-> chars]
RangeLine(before, from, to, after) ==
    [kind |-> "range", chars |->
        before \o StampText(from) \o <<" ", "-", "-", ">", " ">> \o StampText(to)
            \o after,
     from |-> from, to |-> to]

\* the blocks the files are made of, by name: well-formed ones ("late" with
\* an end before its start and two text lines, "blank" with a blank text,
\* "around" with text around the time range), "short" of two lines,
\* "nomillis" whose second line has no milliseconds, "gap" that starts with
\* an empty line (a second blank line before it)
BlockNames == {"plain", "late", "blank", "around", "short", "nomillis", "gap"}
BlockLines(name) ==
    CASE name = "plain" ->
           <<TextLine(<<"1">>),
             RangeLine(<<>>, Stamp(0, 0, 0, 0), Stamp(0, 0, 0, 1), <<>>),
             TextLine(<<"T", "K">>)>>
      [] name = "late" ->
           <<TextLine(<<"2">>),
             RangeLine(<<>>, Stamp(0, 0, 0, 2), Stamp(0, 0, 0, 1), <<>>),
             TextLine(<<"T", "K">>), TextLine(<<"O">>)>>
      [] name = "blank" ->
           <<TextLine(<<"3">>),
             RangeLine(<<>>, Stamp(0, 0, 1, 0), Stamp(0, 0, 2, 500), <<>>),
             TextLine(<<" ">>)>>
      [] name = "around" ->
           <<TextLine(<<"4">>),
             RangeLine(<<"x">>, Stamp(0, 0, 0, 1), Stamp(1, 61, 99, 8), <<"y">>),
             TextLine(<<"n", "k">>)>>
      [] name = "short" ->
           <<TextLine(<<"5">>),
             RangeLine(<<>>, Stamp(0, 0, 0, 0), Stamp(0, 0, 0, 2), <<>>)>>
      [] name = "nomillis" ->
           <<TextLine(<<"6">>),
             TextLine(<<"0", "0", ":", "0", "0", ":", "0", "1", " ", "-", "-",
                        ">", " ", "0", "0", ":", "0", "0", ":", "0", "2">>),
             TextLine(<<"T", "K">>)>>
      [] name = "gap" ->
           <<TextLine(<<>>), TextLine(<<"7">>),
             RangeLine(<<>>, Stamp(0, 0, 0, 1), Stamp(0, 0, 0, 2), <<>>),
             TextLine(<<"T", "K">>)>>

\* the line breaks of a file, by name
LineBreaks == {"LF", "CRLF", "CR"}
LineBreak(name) ==
    CASE name = "LF" -> <<Newline>>
      [] name = "CRLF" -> <<Return, Newline>>
      [] name = "CR" -> <<Return>>

\* a file: up to two blocks and the line break it uses; a file of CRLF or
\* CR lines ends with a line break, one of LF lines does not.  The first
\* line and the last line of a file are not blank (trim, line 21, would
\* remove them from their blocks).
Files ==
    {f \in [blocks : UNION {[1..n -> BlockNames] : n \in {0, 1, 2}},
            break : LineBreaks] :
        Len(f.blocks) > 0 =>
            /\ ~IsBlank(BlockLines(f.blocks[1])[1].chars)
            /\ LET last == BlockLines(f.blocks[Len(f.blocks)])
               IN  ~IsBlank(last[Len(last)].chars)}

\* the content of a file: the lines of a block each followed by a line
\* break, but for the last, and a blank line between two blocks
FileText(f) ==
    LET break == LineBreak(f.break)
        BlockText(name) ==
            Join([k \in 1..Len(BlockLines(name)) |-> BlockLines(name)[k].chars], break)
    IN  Join([b \in 1..Len(f.blocks) |-> BlockText(f.blocks[b])], break \o break)
            \o (IF f.break = "LF" THEN <<>> ELSE break)

\* the entries pushed for each file, computed once
ParsedFiles == {<<f, PushedEntries(FileText(f))>> : f \in Files}
Parsed(f) == (CHOOSE pair \in ParsedFiles : pair[1] = f)[2]

\* parseSRT(previous, FileText(f))
LoadedTimeline(previous, f) == FreshTimeline(previous) \o Parsed(f)

\* an entry of a timeline that has been replaced: identical to no entry of
\* the loaded timeline
Stale == -1
StaleIfEntry(sub) == IF sub = Null THEN Null ELSE Stale

\* loadSubtitles (src/video-player.js lines 116-122) for a file: it is
\* parsed and the player's subtitles are the parser's; currentSubtitle, the
\* display and the passes keep the entries of the timeline before
Load(file) ==
    /\ fileContent' = file
    /\ subtitles' = LoadedTimeline(subtitles, file)
    /\ currentSubtitle' = StaleIfEntry(currentSubtitle)
    /\ subtitleDisplay' = [subtitleDisplay EXCEPT !.sub = StaleIfEntry(@)]
    /\ passes' = [p \in 1..Len(passes) |->
                     [passes[p] EXCEPT !.sub = StaleIfEntry(@)]]
    /\ UNCHANGED <<lookup, subtitleArea, kuroshiroReady, caught, stampCase,
                   tierCase, textCase, mergeCase>>
    /\ UNCHANGED <<alignVars, lookupVars, rubyVars>>

LoadSubtitles == \E file \in Files : Load(file)

InitParser ==
    /\ subtitles = <<>>
    /\ lookup = NoLookup
    /\ AlignIdle
    /\ LookupIdle
    /\ RubyIdle
    /\ PlayerIdle
    /\ CasesIdle

NextParser ==
    \/ LoadSubtitles
    \/ FindSubtitleAtTime

SpecParser == InitParser /\ [][NextParser]_vars

\* the files of the runs in which files are loaded during playback: one
\* of two entries, one of one entry, one without entries
ReloadFiles ==
    {f \in Files : f.break = "LF" /\ f.blocks \in
                       {<<"plain", "late">>, <<"late">>, <<"short">>, <<"blank", "plain">>}}

ReloadSubtitles == \E file \in ReloadFiles : Load(file)

NextReload ==
    \/ ReloadSubtitles
    \/ FindSubtitleAtTime
    \/ TimeUpdate

SpecReload == InitParser /\ [][NextReload]_vars

\* C11: after any sequence of loads, lookups and time updates the timeline
\* is exactly the entries parsed from the content loaded last, in that
\* content's order: a load keeps no entry of the file before, and neither
\* findSubtitleAtTime nor checkSubtitles changes the timeline.
C11_TimelineOfLastLoad == subtitles = Parsed(fileContent)

\* a file of one entry is loaded while the player still holds an entry of
\* the file loaded before
C11_Witness ==
    /\ Len(subtitles) = 1
    /\ Len(fileContent.blocks) = 1
    /\ currentSubtitle = Stale
    /\ Len(passes) > 0
    /\ lookup.result = 2

\* ------------------------------------------- the conversion of timestamps
\* (timeToMilliseconds, src/docs/subtitle-parser.js lines 58-63, and the
\* time range of a block, lines 33-38): the timestamp and the time range are
\* drawn by the initial state, one action converts the timestamp, the next
\* parses a block with the time range
StampHours == {0, 1, 99}
StampMinutes == {0, 59, 61, 99}
StampSeconds == {0, 2, 60, 99}
StampMillis == {0, 500, 999}
Stamps ==
    {Stamp(h, m, s, ms) : h \in StampHours, m \in StampMinutes,
                          s \in StampSeconds, ms \in StampMillis}
RangeStamps ==
    {Stamp(0, 0, 1, 0), Stamp(0, 0, 2, 500), Stamp(0, 61, 0, 1),
     Stamp(99, 99, 99, 999)}

\* a block of three lines: a counter, the time range, a text
RangeBlock(from, to) ==
    <<"1", Newline>> \o RangeLine(EmptyString, from, to, EmptyString).chars
        \o <<Newline, "T", "K">>

InitStamp ==
    /\ \E t \in Stamps, from \in RangeStamps, to \in RangeStamps :
          stampCase = [pc |-> "drawn", t |-> t, from |-> from, to |-> to]
    /\ subtitles = <<>>
    /\ lookup = NoLookup
    /\ fileContent = NoContent
    /\ tierCase = NoCase
    /\ textCase = NoCase
    /\ mergeCase = NoCase
    /\ AlignIdle
    /\ LookupIdle
    /\ RubyIdle
    /\ PlayerIdle

ConvertStamp ==
    /\ stampCase.pc = "drawn"
    /\ stampCase' = [stampCase EXCEPT !.pc = "converted"]
                        @@ [ms |-> timeToMilliseconds(StampText(stampCase.t))]
    /\ UNCHANGED <<subtitles, lookup, fileContent, tierCase, textCase, mergeCase>>
    /\ UNCHANGED <<alignVars, lookupVars, rubyVars, playerVars>>

ParseRange ==
    /\ stampCase.pc = "converted"
    /\ stampCase' = [stampCase EXCEPT !.pc = "parsed"]
                        @@ [entries |-> parseSRT(subtitles,
                                RangeBlock(stampCase.from, stampCase.to))]
    /\ UNCHANGED <<subtitles, lookup, fileContent, tierCase, textCase, mergeCase>>
    /\ UNCHANGED <<alignVars, lookupVars, rubyVars, playerVars>>

NextStamp ==
    \/ ConvertStamp
    \/ ParseRange

SpecStamp == InitStamp /\ [][NextStamp]_vars

\* HH:MM:SS,mmm by the formula of the claim
StampMilliseconds(t) == ((t.h * 3600 + t.m * 60 + t.s) * 1000) + t.ms

\* C12: timeToMilliseconds maps HH:MM:SS,mmm to
\* ((H*3600 + M*60 + S) * 1000) + mmm, the components read in base 10 and
\* not validated (minutes and seconds of 60..99 count arithmetically); a
\* block whose time range is 00:00:01,000 --> 00:00:02,500 yields
\* start = 1000 and end = 2500, and any block yields the start and the end
\* of its two timestamps by the same formula.
C12_Milliseconds ==
    /\ stampCase.pc \in {"converted", "parsed"}
          => stampCase.ms = StampMilliseconds(stampCase.t)
    /\ stampCase.pc = "parsed"
          => /\ Len(stampCase.entries) = 1
             /\ stampCase.entries[1].start = StampMilliseconds(stampCase.from)
             /\ stampCase.entries[1].end = StampMilliseconds(stampCase.to)
             /\ (stampCase.from = Stamp(0, 0, 1, 0)
                    /\ stampCase.to = Stamp(0, 0, 2, 500))
                   => /\ stampCase.entries[1].start = 1000
                      /\ stampCase.entries[1].end = 2500

\* 00:61:99,999 converted to 3759999 ms, and the range of the example parsed
C12_Witness ==
    /\ stampCase.pc = "parsed"
    /\ stampCase.t = Stamp(0, 61, 99, 999)
    /\ stampCase.ms = 3759999
    /\ stampCase.from = Stamp(0, 0, 1, 0)
    /\ stampCase.to = Stamp(0, 0, 2, 500)
    /\ stampCase.entries = <<Entry(1000, 2500, <<"T", "K">>)>>

\* the blocks of a file a reader of the format takes for entries: three
\* lines or more, the second with a time range
WellFormed(name) ==
    /\ Len(BlockLines(name)) >= 3
    /\ BlockLines(name)[2].kind = "range"
WellFormedBlocks(f) == SelectSeq(f.blocks, WellFormed)

TextOfBlock(name) ==
    LET lines == BlockLines(name)
    IN  IF Len(lines) = 3 THEN lines[3].chars
        ELSE lines[3].chars \o <<" ">> \o lines[4].chars

\* C14: the entries of parseSRT are in the order of their blocks in the
\* input, never sorted by start time (an entry with a later start may come
\* before one with an earlier start), and the text of each entry is the
\* lines of its block from the third on joined with one space.
C14_BlockOrder ==
    LET blocks == WellFormedBlocks(fileContent)
    IN  subtitles =
            [k \in 1..Len(blocks) |->
                Entry(StampMilliseconds(BlockLines(blocks[k])[2].from),
                      StampMilliseconds(BlockLines(blocks[k])[2].to),
                      TextOfBlock(blocks[k]))]

\* the block that starts at 2 ms, of two text lines, before the block that
\* starts at 0 ms
C14_Witness ==
    /\ fileContent.blocks = <<"late", "plain">>
    /\ subtitles = <<Entry(2, 1, <<"T", "K", " ", "O">>),
                     Entry(0, 1, <<"T", "K">>)>>
    /\ lookup.time = 1
    /\ lookup.result = 1

\* ------------------------------------ one resolution, response by response
\* (lookupWholeWord, src/video-player.js lines 536-632, for a word that
\* encodes): the responses of the inflected and of the direct request are
\* kept whole next to data.meaning
NoResponse == [kind |-> "none", matches |-> <<>>]

InitTiers ==
    /\ tierCase = [pc |-> "inflected", meaning |-> NoMeaning, by |-> "none",
                   inflected |-> NoResponse, direct |-> NoResponse]
    /\ subtitles = <<>>
    /\ lookup = NoLookup
    /\ fileContent = NoContent
    /\ stampCase = NoCase
    /\ textCase = NoCase
    /\ mergeCase = NoCase
    /\ AlignIdle
    /\ LookupIdle
    /\ RubyIdle
    /\ PlayerIdle

\* the code after a request has settled, up to the next request or the return
Settle(tier, resp, outcome) ==
    /\ tierCase' =
          LET kept == IF tier = "partial" THEN tierCase
                      ELSE [tierCase EXCEPT ![tier] = resp]
          IN  CASE outcome.kind = "return" ->
                     [kept EXCEPT !.pc = "returned", !.by = tier,
                                  !.meaning = outcome.meaning]
                [] outcome.kind = "throw" ->
                     [kept EXCEPT !.pc = "returned", !.by = "catch",
                                  !.meaning = CaughtMeaning(outcome.meaning)]
                [] outcome.kind = "next" /\ tier = "partial" ->
                     [kept EXCEPT !.pc = "returned", !.by = "default",
                                  !.meaning = DefaultMeaning(outcome.meaning)]
                [] OTHER ->
                     [kept EXCEPT !.pc = NextTier(tier),
                                  !.meaning = outcome.meaning]
    /\ UNCHANGED <<subtitles, lookup, fileContent, stampCase, textCase, mergeCase>>
    /\ UNCHANGED <<alignVars, lookupVars, rubyVars, playerVars>>

\* lines 542-576
InflectedSettles ==
    /\ tierCase.pc = "inflected"
    /\ \E resp \in Responses :
          Settle("inflected", resp, InflectedTier(resp, tierCase.meaning))

\* lines 577-595
DirectSettles ==
    /\ tierCase.pc = "direct"
    /\ \E resp \in Responses :
          Settle("direct", resp, DirectTier(resp, tierCase.meaning))

\* lines 596-631
PartialSettles ==
    /\ tierCase.pc = "partial"
    /\ \E resp \in Responses :
          Settle("partial", resp, PartialTier(resp, tierCase.meaning))

NextTiers ==
    \/ InflectedSettles
    \/ DirectSettles
    \/ PartialSettles

SpecTiers == InitTiers /\ [][NextTiers]_vars

\* a response with a match and with strings for all its meanings
StringMeanings == {"", " ", "m1", "m2"}
HasStringMatches(resp) ==
    /\ resp.kind = "ok"
    /\ Len(resp.matches) > 0
    /\ \A k \in 1..Len(resp.matches) : resp.matches[k].meaning \in StringMeanings

NonBlankAt(matches, k) == matches[k].meaning \notin {"", " "}
ExactNonBlank(matches) ==
    {k \in 1..Len(matches) : matches[k].exact /\ NonBlankAt(matches, k)}
AnyNonBlank(matches) == {k \in 1..Len(matches) : NonBlankAt(matches, k)}
First(indices) == CHOOSE k \in indices : \A j \in indices : k <= j

\* the meaning by the preference order (a), (b), (c)
PreferredMeaning(matches) ==
    IF ExactNonBlank(matches) # {} THEN matches[First(ExactNonBlank(matches))].meaning
    ELSE IF AnyNonBlank(matches) # {} THEN matches[First(AnyNonBlank(matches))].meaning
    ELSE matches[1].meaning

\* C15: for an inflected response with matches the chosen meaning is (a)
\* that of the first match that equals the word and has a non-blank
\* meaning, otherwise (b) that of the first match with a non-blank meaning,
\* otherwise (c) that of the first match even if it is empty or blank.
C15_InflectedPreference ==
    tierCase.pc = "returned" /\ HasStringMatches(tierCase.inflected) =>
        tierCase.meaning = PreferredMeaning(tierCase.inflected.matches)

\* C16: a direct response with an exact match that has a non-blank meaning
\* and an earlier non-exact match that has one yields the meaning of the
\* exact match.
C16_DirectPrefersExact ==
    (/\ tierCase.pc = "returned"
     /\ tierCase.by = "direct"
     /\ HasStringMatches(tierCase.direct)
     /\ ExactNonBlank(tierCase.direct.matches) # {})
        => tierCase.meaning
               = tierCase.direct.matches[First(ExactNonBlank(tierCase.direct.matches))].meaning

\* the requests of the resolution in progress that have not settled
Outstanding ==
    IF LoggedCall = 0 THEN 0 ELSE Len(RequestsOf(LoggedCall)) - Len(tierLog)

\* C17: the resolutions of one pass are sequential and in word-list order:
\* at most one request is outstanding at any moment, and a request for a
\* word is issued only when the resolutions of all the words before it have
\* completed (lkIdx - 1 resolutions have completed).
C17_Sequential ==
    /\ Outstanding \in {0, 1}
    /\ Outstanding = 1 <=> lkPc \in {"inflected", "direct", "partial"}
    /\ \A k \in 1..Len(requests) : requests[k].call <= lkIdx
    /\ \A k \in 1..(Len(requests) - 1) : requests[k].call <= requests[k + 1].call
    /\ lkPc = "loop" => \A k \in 1..Len(requests) : requests[k].call < lkIdx

\* the second word's direct request is outstanding after the first word's
\* resolution took two requests
C17_Witness ==
    /\ Len(lkWords) = 2
    /\ lkIdx = 2
    /\ lkPc = "direct"
    /\ requests = <<Request(1, "inflected"), Request(1, "direct"),
                    Request(2, "inflected"), Request(2, "direct")>>
    /\ Len(tierLog) = 1

\* no two entries of a word list have the same surface string
DistinctSurfaces(words) ==
    \A i, j \in 1..Len(words) : i # j => words[i].word # words[j].word

\* C18: in the variant that takes its words from the reading markup, the
\* word list handed to the compositor has at most one entry per surface
\* string: a ruby base that is already present is not added again, and a
\* word of findKanjiWords is added only if no entry has its surface string.
C18_OneEntryPerSurface ==
    /\ DistinctSurfaces(rubyWords)
    /\ DistinctSurfaces(allWords)
    /\ rubyPc = "done" =>
          /\ \A k \in 1..Len(rubyWords) :
                \E a \in 1..Len(allWords) : allWords[a] = rubyWords[k]
          /\ \A k \in 1..Len(results) :
                \E a \in 1..Len(allWords) : allWords[a].word = results[k].word

\* two ruby elements with the base 東京, which findKanjiWords returns too
C18_Witness ==
    /\ rubyPc = "done"
    /\ rubyElements = <<<<"T", "K">>, <<"T", "K">>>>
    /\ Len(results) = 1
    /\ results[1].word = <<"T", "K">>
    /\ Len(allWords) = 1
    /\ allWords[1].word = <<"T", "K">>

\* C19: when the aligned word list of a subtitle is empty, the annotation
\* pass leaves the display as the reading-only pass wrote it: a pass that
\* leaves the alignment without a lookup to wait for returns in that step
\* without a write to the display, and a pass that has returned writes
\* nothing later.
C19_EmptyWordList ==
    [][\A p \in 1..Len(passes) :
          /\ (passes[p].pc = "parse" /\ passes'[p] # passes[p]
                  /\ passes'[p].pc # "lookup")
                => /\ passes'[p] = Pass(passes[p].sub, "done", 0)
                   /\ subtitleDisplay' = subtitleDisplay
          /\ passes[p].pc = "done" => passes'[p] = passes[p]]_vars

\* the pass of the entry without kanji has returned after the alignment
\* and the display holds the reading-only markup of that entry
C19_Witness ==
    /\ kuroshiroReady
    /\ Len(passes) = 2
    /\ passes[1].pc = "parse"
    /\ passes[2] = Pass(2, "done", 0)
    /\ subtitles[2].text = <<"n", "k">>
    /\ currentSubtitle = 2
    /\ subtitleDisplay = Display("reading", 2)

\* the entry has no text to show: subtitle.text is empty or trims to ''
NothingToShow(timeline, sub) == Trim(timeline[sub].text) = EmptyString

\* C20: when a time update makes the active entry null or an entry whose
\* text is empty or whitespace-only, checkSubtitles empties the display,
\* hides the subtitle area and starts no pass (no conversion, tokenization
\* or dictionary request), so no pass ever runs for such an entry and the
\* display never holds markup of it.
C20_BlankHidesDisplay ==
    /\ [][(/\ currentSubtitle' # currentSubtitle
           /\ \/ currentSubtitle' = Null
              \/ NothingToShow(subtitles, currentSubtitle'))
             => /\ subtitleDisplay' = NoDisplay
                /\ subtitleArea' = "none"
                /\ passes' = passes]_vars
    /\ [](\A p \in 1..Len(passes) : ~NothingToShow(subtitles, passes[p].sub))
    /\ [](subtitleDisplay.sub # Null => ~NothingToShow(subtitles, subtitleDisplay.sub))

\* the pass of the first entry has ended and written; the time update to
\* the whitespace-only entry has emptied and hidden the display
C20_Witness ==
    /\ currentSubtitle = 2
    /\ subtitles[2].text = <<" ">>
    /\ subtitleDisplay = NoDisplay
    /\ subtitleArea = "none"
    /\ Len(passes) = 1
    /\ passes[1] = Pass(1, "done", 0)
    /\ kuroshiroReady

\* the lines of a block after the empty lines it starts with
RECURSIVE WithoutLeadingEmpty(_)
WithoutLeadingEmpty(lines) ==
    IF Len(lines) > 0 /\ lines[1].chars = EmptyString
    THEN WithoutLeadingEmpty(Tail(lines))
    ELSE lines

\* an index line, a time-range line and at least one text line, after any
\* number of blank lines
WellFormedAfterBlanks(name) ==
    LET lines == WithoutLeadingEmpty(BlockLines(name))
    IN  Len(lines) >= 3 /\ lines[2].kind = "range"

\* C25: for a file of well-formed blocks separated by one or more blank
\* lines parseSRT yields exactly one entry per block: additional blank lines
\* between two blocks do not make the following block skipped or read at
\* the wrong line index.
C25_ExtraBlankLines ==
    (\A b \in 1..Len(fileContent.blocks) :
        WellFormedAfterBlanks(fileContent.blocks[b]))
        => Len(subtitles) = Len(fileContent.blocks)

\* the words of the analyzer the aligner has handled so far
Handled == SubSeq(segmentedWords, 1, wordIdx - 1)

\* whether the surface strings of emitted are a subsequence of words
IsSubsequence(emitted, words) ==
    \E f \in [1..Len(emitted) -> 1..Len(words)] :
        /\ \A k \in 1..Len(emitted) : words[f[k]] = emitted[k].word
        /\ \A j, k \in 1..Len(emitted) : j < k => f[j] < f[k]

\* C26: for every word the tokenizer-based aligner emits, the part of the
\* subtitle text at [position, position + length) is the word's surface
\* string, and until the later sort the emitted list is a subsequence of
\* the analyzer's words in the same order.
C26_EmittedWordsMatchText ==
    /\ \A k \in 1..Len(kanjiWords) :
          LET w == kanjiWords[k]
          IN  /\ w.length = Len(w.word)
              /\ w.position >= 0
              /\ w.position + w.length <= Len(originalText)
              /\ SubSeq(originalText, w.position + 1, w.position + w.length) = w.word
    /\ alignPc \in {"align", "compose"} =>
          IF Len(Handled) = 0 THEN kanjiWords = <<>>
          ELSE IsSubsequence(kanjiWords, Handled)

\* the second word was placed by the search from the start of the text
C26_Witness ==
    /\ alignPc = "compose"
    /\ originalText = <<"T", "K", "n", "I", "k">>
    /\ segmentedWords = << <<"I", "k">>, <<"T", "K">> >>
    /\ kanjiWords = <<WordObj(<<"I", "k">>, 3), WordObj(<<"T", "K">>, 0)>>

\* the end offset of an emitted word
EndOf(w) == w.position + w.length

\* C27: when each word occurs at or after the end of the word placed
\* before it (the search from offset 0 is not taken), the cursor does not
\* decrease, the emitted positions increase strictly and the emitted ranges
\* are disjoint; a word is placed before the end of the word before it only
\* when it does not occur at or after that end.  The cursor is the end of
\* the word placed last.
C27_TextOrderKeepsRangesDisjoint ==
    /\ [](alignPc \in {"align", "compose"} =>
            /\ textIndex = IF kanjiWords = <<>> THEN 0
                           ELSE EndOf(kanjiWords[Len(kanjiWords)])
            /\ \A k \in 1..(Len(kanjiWords) - 1) :
                  LET next == kanjiWords[k + 1]
                      inOrder == IndexOf(originalText, next.word,
                                         EndOf(kanjiWords[k])) # -1
                  IN  IF inOrder
                      THEN /\ next.position >= EndOf(kanjiWords[k])
                           /\ next.position > kanjiWords[k].position
                      ELSE next.position < EndOf(kanjiWords[k]))
    /\ [][(/\ alignPc = "align"
           /\ wordIdx' # wordIdx
           /\ ~IsBlank(segmentedWords[wordIdx])
           /\ IndexOf(originalText, segmentedWords[wordIdx], textIndex) # -1)
             => /\ textIndex' > textIndex
                /\ Len(kanjiWords') = Len(kanjiWords) + 1
                /\ kanjiWords'[Len(kanjiWords')].position >= textIndex]_vars

\* two words placed in text order, the second right after the first
C27_Witness ==
    /\ alignPc = "compose"
    /\ originalText = <<"T", "K", "K">>
    /\ kanjiWords = <<WordObj(<<"T", "K">>, 0), WordObj(<<"K">>, 2)>>
    /\ textIndex = 3

\* C28: in overlay mode the visible text of every highlight wrapper is the
\* part of the original text that lies in both the range of its word and
\* the range of its text leaf: the wrapper shows the text at its offset and
\* covers no character outside [position, position + length) of its word.
C28_WrapperWithinWord ==
    alignPc = "done" =>
        \A s \in 1..Len(Spans(tempDiv)) :
            LET span == Spans(tempDiv)[s]
            IN  /\ span.content = Substr(originalText, span.src, Len(span.content))
                /\ \E k \in 1..Len(kanjiWords) :
                      /\ kanjiWords[k].word = span.popup
                      /\ kanjiWords[k].position <= span.src
                      /\ span.src + Len(span.content) <= EndOf(kanjiWords[k])

\* C29: checkSubtitles starts a display pass only when the entry its lookup
\* returns is not currentSubtitle: a pass is added only in a step that makes
\* another entry current, it is the one pass of that entry for as long as
\* the time updates resolve to it, and after the synchronous part of a
\* time-update handler currentSubtitle is the result of that handler's
\* lookup.
C29_OnePassPerChange ==
    /\ [](lookup # NoLookup =>
            /\ currentSubtitle = lookup.result
            /\ lookup.result = findSubtitleAtTime(subtitles, lookup.time))
    /\ [][passes' # passes /\ Len(passes') # Len(passes) =>
            /\ currentSubtitle' # currentSubtitle
            /\ passes' = Append(passes, passes'[Len(passes')])
            /\ passes'[Len(passes')].sub = currentSubtitle'
            /\ passes'[Len(passes')].sub = lookup'.result]_vars
    /\ [][currentSubtitle' = currentSubtitle =>
            /\ Len(passes') = Len(passes)
            /\ subtitleArea' = subtitleArea]_vars
    /\ [][(currentSubtitle' # currentSubtitle /\ currentSubtitle' # Null
              /\ ~NothingToShow(subtitles, currentSubtitle'))
            => Len(passes') = Len(passes) + 1]_vars

\* the entry that spans 0 to 1 ms was looked up at 1 ms and is current, with
\* its one pass waiting for a lookup and the reading markup on display
C29_Witness ==
    /\ subtitles[1].end = 1
    /\ lookup = [time |-> 1, result |-> 1]
    /\ currentSubtitle = 1
    /\ passes = <<Pass(1, "lookup", 2)>>
    /\ subtitleDisplay = Display("reading", 1)

\* C22: when the analyzer throws or rejects while it tokenizes a subtitle,
\* the pass continues with an empty word list: it returns in that step with
\* no dictionary request to wait for and with the display as it was (the
\* reading-only content), and it stays returned.
C22_AnalyzerFailure ==
    /\ [][\A p \in 1..Len(passes) :
            (Caught(p, "parse") \in caught' /\ Caught(p, "parse") \notin caught)
                => /\ passes[p].pc = "parse"
                   /\ passes'[p] = Pass(passes[p].sub, "done", 0)
                   /\ subtitleDisplay' = subtitleDisplay
                   /\ subtitleArea' = subtitleArea
                   /\ currentSubtitle' = currentSubtitle]_vars
    /\ [](\A c \in caught : c.place = "parse" => passes[c.pass].pc = "done")

\* the analyzer failed for the pass of the current entry, whose reading
\* markup is on display
C22_Witness ==
    /\ kuroshiroReady
    /\ caught = {Caught(1, "parse")}
    /\ passes = <<Pass(1, "done", 0)>>
    /\ currentSubtitle = 1
    /\ subtitleDisplay = Display("reading", 1)
    /\ subtitleArea = "block"

\* the display holds the raw text of entry sub and nothing else: written as
\* plain text, or written by a pass that had no reading to add to it
ShowsRawText(sub) ==
    \/ subtitleDisplay = Display("plain", sub)
    \/ /\ subtitleDisplay = Display("reading", sub)
       /\ ~hasKanji(subtitles[sub].text)

\* C23: an error raised while the annotated tree of the current subtitle is
\* composed is caught, and after it the display shows the raw text of that
\* subtitle as plain text.
C23_FallbackToRawText ==
    [][\A p \in 1..Len(passes) :
          (/\ Caught(p, "compose") \in caught'
           /\ Caught(p, "compose") \notin caught
           /\ passes[p].sub = currentSubtitle)
              => ShowsRawText(passes[p].sub)']_vars

\* ------------------------------------------------ processSubtitleText
\* (src/video-player.js, lines 163-180; the second version, lines 800-816,
\* is the same)
\* The converter as the call finds it: "none" (this.kuroshiro is null, line
\* 17), "initialising" (created at line 42, init still awaited at line 43)
\* or "ready" (kuroshiroReady set at line 44).  KuroshiroClass.Util is
\* "absent", "answers" (hasKanji returns its verdict on the text) or
\* "throws" (reading it or calling hasKanji throws).
ConverterStates == {"none", "initialising", "ready"}
UtilStates == {"absent", "answers", "throws"}
ConvertTexts == Texts \cup {<<"n">>, <<" ">>, <<"n", "k">>, <<"k", " ">>}

\* a return value of processSubtitleText: the text, or converted markup
TextResult(text) == [kind |-> "text", chars |-> text]
MarkupResult(tree) == [kind |-> "markup", tree |-> tree]

\* a guard that looks at the converter object only
ConverterCreated(c) == c.converter # "none"

\* line 164, negated: this.kuroshiro && this.kuroshiroReady
ConverterUsable(c) == c.converter = "ready"

\* line 170: util && util.hasKanji(text), when it does not throw
PredicateTrue(c) == c.util = "answers" /\ hasKanji(c.text)

\* the call has returned value after calls calls of kuroshiro.convert
ReturnedText(c, calls, value) ==
    [c EXCEPT !.pc = "returned", !.calls = calls, !.result = value]

InitText ==
    /\ \E text \in ConvertTexts, converter \in ConverterStates, util \in UtilStates :
          textCase = [pc |-> "drawn", text |-> text, converter |-> converter,
                      util |-> util, calls |-> 0, settled |-> "none",
                      result |-> TextResult(EmptyString)]
    /\ subtitles = <<>>
    /\ lookup = NoLookup
    /\ fileContent = NoContent
    /\ stampCase = NoCase
    /\ tierCase = NoCase
    /\ mergeCase = NoCase
    /\ AlignIdle
    /\ LookupIdle
    /\ RubyIdle
    /\ PlayerIdle

\* processSubtitleText up to its return or to the await of line 172; an
\* error thrown by the predicate or synchronously by convert is caught at
\* line 175 and the text returned at line 179
ProcessSubtitleText ==
    /\ textCase.pc = "drawn"
    /\ IF ~ConverterUsable(textCase)
       THEN textCase' = ReturnedText(textCase, 0, TextResult(textCase.text))
       ELSE IF textCase.util = "throws" \/ ~PredicateTrue(textCase)
       THEN textCase' = ReturnedText(textCase, 0, TextResult(textCase.text))
       ELSE \E thrown \in BOOLEAN :
               textCase' =
                  IF thrown
                  THEN [ReturnedText(textCase, 1, TextResult(textCase.text))
                           EXCEPT !.settled = "threw"]
                  ELSE [textCase EXCEPT !.pc = "convert", !.calls = 1]
    /\ UNCHANGED <<subtitles, lookup, fileContent, stampCase, tierCase, mergeCase>>
    /\ UNCHANGED <<alignVars, lookupVars, rubyVars, playerVars>>

\* kuroshiro.convert settles: its markup is returned (line 172), or its
\* rejection is caught (line 175) and the text returned (line 179)
ConvertSettles ==
    /\ textCase.pc = "convert"
    /\ \/ \E tree \in FuriganaTrees(textCase.text) :
             textCase' = [ReturnedText(textCase, textCase.calls, MarkupResult(tree))
                             EXCEPT !.settled = "resolved"]
       \/ textCase' = [ReturnedText(textCase, textCase.calls, TextResult(textCase.text))
                          EXCEPT !.settled = "rejected"]
    /\ UNCHANGED <<subtitles, lookup, fileContent, stampCase, tierCase, mergeCase>>
    /\ UNCHANGED <<alignVars, lookupVars, rubyVars, playerVars>>

NextText ==
    \/ ProcessSubtitleText
    \/ ConvertSettles

SpecText == InitText /\ [][NextText]_vars

\* C21: processSubtitleText calls the converter only when the converter is
\* initialised and the hasKanji predicate is true for the text; in every
\* other case (not ready, no kanji, the predicate or the converter throws
\* or rejects) it returns the input text unchanged; it always ends with a
\* return.
C21_ConvertOnlyReadyKanji ==
    /\ textCase.pc \in {"drawn", "convert", "returned"}
    /\ textCase.calls \in {0, 1}
    /\ textCase.calls = 1 =>
          /\ textCase.converter = "ready"
          /\ textCase.util = "answers"
          /\ hasKanji(textCase.text)
    /\ textCase.pc = "convert" => textCase.calls = 1
    /\ (textCase.pc = "returned" /\ textCase.settled # "resolved") =>
          /\ textCase.result.kind = "text"
          /\ textCase.result.chars = textCase.text
    /\ (textCase.pc = "returned" /\ textCase.settled = "resolved") =>
          /\ textCase.calls = 1
          /\ textCase.result.kind = "markup"
          /\ textCase.result.tree \in FuriganaTrees(textCase.text)

\* a text with kanji came back unchanged from a converter that is created
\* but not initialised, without a call of the converter
C21_Witness ==
    /\ textCase.pc = "returned"
    /\ textCase.converter = "initialising"
    /\ textCase.util = "answers"
    /\ textCase.text = <<"T", "K", "n", "I", "k">>
    /\ textCase.calls = 0
    /\ textCase.result = TextResult(textCase.text)

\* ------------------------------------------- the compositor, tree-merge
\* (src/video-player.js, processTextNodesForKanji and processNode, lines
\* 992-1177, getRubyBase, lines 1215-1240)
MaxMergeNodes == 2  \* children of the parsed display markup
MaxMergeWords == 2  \* entries of the word list

\* an rt element outside a reading element, and an element that is neither
\* ruby nor rt (the div the markup is parsed into, a formatting element)
RtNode == [tag |-> "rt", content |-> <<"r">>]
ElementNode(name, kids) == [tag |-> name, kids |-> kids]

\* a highlight wrapper of tree-merge mode (span.kanji-word): around a word
\* of a text node (content, lines 1143-1166) or around the clone of a reading
\* element (kids, lines 1033-1062), its popup child held in popup
MergeSpan(content, popup, kids) ==
    [tag |-> "span", content |-> content, popup |-> popup, kids |-> kids]

\* String.prototype.includes
Includes(s, word) == IndexOf(s, word, 0) # -1

\* the text of the children of a reading element that are not rt or rp
\* (lines 1218-1234)
ChildText(ruby) == Concat(ruby.kids, 1)

\* the predicate of lines 1026-1028
MatchesRuby(rubyBase, kw) ==
    \/ rubyBase = kw.word
    \/ Includes(rubyBase, kw.word)
    \/ Includes(kw.word, rubyBase)

\* the entry that matches last
FindLastWord(wordList, rubyBase) ==
    LET hits == {k \in 1..Len(wordList) : MatchesRuby(rubyBase, wordList[k])}
    IN  IF hits = {} THEN 0 ELSE CHOOSE k \in hits : \A h \in hits : h <= k

\* kanjiWords.find(...) of lines 1026-1028: the index of the first entry
\* that matches, 0 for undefined
FindKanjiWord(wordList, rubyBase) ==
    LET hits == {k \in 1..Len(wordList) : MatchesRuby(rubyBase, wordList[k])}
    IN  IF hits = {} THEN 0 ELSE CHOOSE k \in hits : \A h \in hits : k <= h

\* lines 1020-1069: a reading element is cloned, inside a wrapper when an
\* entry matches its base
ProcessRuby(node, wordList) ==
    LET rubyBase == getRubyBase(ChildText(node))
        matching == FindKanjiWord(wordList, rubyBase)
    IN  IF matching # 0
        THEN <<MergeSpan(EmptyString, Popup(wordList[matching]), <<node>>)>>
        ELSE <<node>>

\* the comparator of lines 1106-1114 for a text node
CmpInText(text, a, b) ==
    IF IndexOf(text, a.word, 0) # IndexOf(text, b.word, 0)
    THEN IndexOf(text, a.word, 0) - IndexOf(text, b.word, 0)
    ELSE Len(b.word) - Len(a.word)

\* lines 1104-1114: the entries whose word the text holds, sorted
RelevantWords(text, wordList) ==
    LET found == SelectSeq(wordList, LAMBDA kw : Includes(text, kw.word))
    IN  SortedBy(found, [i \in 1..Len(found), j \in 1..Len(found) |->
                            CmpInText(text, found[i], found[j])])

\* isRangeProcessed (lines 1186-1193)
isRangeProcessed(start, end, processedIndexes) ==
    \E i \in start..(end - 1) : i \in processedIndexes

\* the loop of lines 1126-1169 from the word i on, and lines 1172-1176
RECURSIVE TextLoop(_, _, _, _, _)
TextLoop(text, relevantWords, i, lastIndex, processedIndexes) ==
    IF i > Len(relevantWords)
    THEN IF lastIndex < Len(text)
         THEN <<TextNode(Substring(text, lastIndex, Len(text)))>>
         ELSE <<>>
    ELSE LET word == relevantWords[i]
             position == IndexOf(text, word.word, lastIndex)
             end == position + Len(word.word)
         IN  IF position = -1 \/ isRangeProcessed(position, end, processedIndexes)
             THEN TextLoop(text, relevantWords, i + 1, lastIndex, processedIndexes)
             ELSE (IF position > lastIndex
                   THEN <<TextNode(Substring(text, lastIndex, position))>>
                   ELSE <<>>)
                  \o <<MergeSpan(word.word, Popup(word), <<>>)>>
                  \o TextLoop(text, relevantWords, i + 1, end,
                              processedIndexes \cup (position..(end - 1)))

\* lines 1096-1177: a text node
ProcessText(node, wordList) ==
    IF IsBlank(node.content) THEN <<node>>
    ELSE IF Len(RelevantWords(node.content, wordList)) = 0 THEN <<node>>
    ELSE TextLoop(node.content, RelevantWords(node.content, wordList), 1, 0, {})

\* processNode (lines 1003-1177): what it appends to the fragment; the
\* children of another element are processed in order into a new element of
\* the same name (lines 1072-1093)
RECURSIVE processNode(_, _)
RECURSIVE ProcessChildren(_, _, _)
processNode(node, wordList) ==
    IF node.tag = "text" THEN ProcessText(node, wordList)
    ELSE IF node.tag = "rt" THEN <<node>>
    ELSE IF node.tag = "ruby" THEN ProcessRuby(node, wordList)
    ELSE <<ElementNode(node.tag, ProcessChildren(node.kids, 1, wordList))>>
ProcessChildren(kids, i, wordList) ==
    IF i > Len(kids) THEN <<>>
    ELSE processNode(kids[i], wordList) \o ProcessChildren(kids, i + 1, wordList)

\* the markup the display may hold when the pass starts (line 833): text
\* nodes, reading elements (their child text a base, a base in parentheses,
\* nothing), rt elements and formatting elements around some of these
MergeLeaves ==
    {TextNode(<<"T", "K">>), TextNode(<<"n">>), TextNode(<<"K", "T", "K">>), RtNode}
        \cup {RubyNode(base) : base \in {<<"T">>, <<"T", "K">>, <<"(", "T", ")">>,
                                         <<"O">>, EmptyString}}
MergeElements ==
    {ElementNode("i", kids) : kids \in {<<>>, <<RubyNode(<<"T", "K">>)>>,
                                        <<TextNode(<<"n">>), RubyNode(<<"T">>)>>,
                                        <<RubyNode(<<"T">>), RubyNode(<<"O">>)>>,
                                        <<RtNode, TextNode(<<"T", "K">>)>>}}
MergeTrees ==
    UNION {[1..n -> MergeLeaves \cup MergeElements] : n \in 0..MaxMergeNodes}

\* the word lists: entries with distinct words, sorted by position (lines
\* 939-954)
MergeWords == {<<"T">>, <<"T", "K">>, <<"K">>}
MergeWordLists ==
    {[i \in 1..Len(ws) |-> WordObj(ws[i], i - 1)] :
        ws \in {l \in UNION {[1..n -> MergeWords] : n \in 0..MaxMergeWords} :
                    \A i, j \in 1..Len(l) : i # j => l[i] # l[j]}}

InitMerge ==
    /\ \E tree \in MergeTrees, words \in MergeWordLists :
          mergeCase = [pc |-> "drawn", tempDiv |-> ElementNode("div", tree),
                       allWords |-> words, fragment |-> <<>>]
    /\ subtitles = <<>>
    /\ lookup = NoLookup
    /\ fileContent = NoContent
    /\ stampCase = NoCase
    /\ tierCase = NoCase
    /\ textCase = NoCase
    /\ AlignIdle
    /\ LookupIdle
    /\ RubyIdle
    /\ PlayerIdle

\* processTextNodesForKanji(tempDiv, fragment, allWords) (lines 959, 992-995)
ProcessTextNodesForKanji ==
    /\ mergeCase.pc = "drawn"
    /\ mergeCase' = [mergeCase EXCEPT
                        !.pc = "merged",
                        !.fragment = processNode(mergeCase.tempDiv, mergeCase.allWords)]
    /\ UNCHANGED <<subtitles, lookup, fileContent, stampCase, tierCase, textCase>>
    /\ UNCHANGED <<alignVars, lookupVars, rubyVars, playerVars>>

NextMerge == ProcessTextNodesForKanji

SpecMerge == InitMerge /\ [][NextMerge]_vars

\* the reading elements below nodes in document order, each with the popups
\* of the highlight wrappers around it, outermost first
RECURSIVE RubiesFrom(_, _, _)
RubiesFrom(nodes, i, around) ==
    IF i > Len(nodes) THEN <<>>
    ELSE (CASE nodes[i].tag = "ruby" -> <<[ruby |-> nodes[i], around |-> around]>>
            [] nodes[i].tag = "span" ->
                  RubiesFrom(nodes[i].kids, 1, Append(around, nodes[i].popup))
            [] nodes[i].tag \in {"text", "rt"} -> <<>>
            [] OTHER -> RubiesFrom(nodes[i].kids, 1, around))
         \o RubiesFrom(nodes, i + 1, around)

\* the rt elements below nodes that are outside a reading element
RECURSIVE RtsFrom(_, _)
RtsFrom(nodes, i) ==
    IF i > Len(nodes) THEN <<>>
    ELSE (CASE nodes[i].tag = "rt" -> <<nodes[i]>>
            [] nodes[i].tag \in {"text", "ruby"} -> <<>>
            [] OTHER -> RtsFrom(nodes[i].kids, 1))
         \o RtsFrom(nodes, i + 1)

\* base equals the word, holds it or is held by it
Related(base, word) ==
    \/ \E p \in 0..Len(base) : OccursAt(base, word, p)
    \/ \E p \in 0..Len(word) : OccursAt(word, base, p)

\* the wrappers expected around a reading element: one with the popup of
\* the first related entry, none without a related entry
ExpectedAround(ruby, words) ==
    LET base == Trim(RemoveParens(ChildText(ruby)))
        related == {k \in 1..Len(words) : Related(base, words[k].word)}
    IN  IF related = {} THEN <<>>
        ELSE <<Popup(words[CHOOSE k \in related : \A h \in related : k <= h])>>

\* C24: in tree-merge mode every reading element of the input tree appears
\* exactly once in the output, in the same document order, unchanged; it
\* is inside exactly one highlight wrapper, with the popup of the first
\* entry of the list whose word equals, holds or is held by its base text,
\* when there is such an entry, and inside none otherwise; rt elements are
\* cloned unchanged.
C24_RubyWrappedOnce ==
    mergeCase.pc = "merged" =>
        LET input == RubiesFrom(<<mergeCase.tempDiv>>, 1, <<>>)
            output == RubiesFrom(mergeCase.fragment, 1, <<>>)
        IN  /\ Len(output) = Len(input)
            /\ \A i \in 1..Len(input) :
                  /\ output[i].ruby = input[i].ruby
                  /\ output[i].around = ExpectedAround(input[i].ruby, mergeCase.allWords)
            /\ RtsFrom(mergeCase.fragment, 1) = RtsFrom(<<mergeCase.tempDiv>>, 1)

\* two reading elements were merged with a list of two entries that both
\* match the first of them: it got the popup of the first entry, and the
\* second element, which no entry matches, was cloned
C24_Witness ==
    /\ mergeCase.pc = "merged"
    /\ mergeCase.tempDiv = ElementNode("div", <<RubyNode(<<"T", "K">>), RubyNode(<<"O">>)>>)
    /\ mergeCase.allWords = <<WordObj(<<"K">>, 0), WordObj(<<"T", "K">>, 1)>>
    /\ mergeCase.fragment =
          <<ElementNode("div", <<MergeSpan(EmptyString, <<"K">>, <<RubyNode(<<"T", "K">>)>>),
                                 RubyNode(<<"O">>)>>)>>

\* the lookup loop when every request settles at some time and the code
\* between two awaits runs to the next one
FairLookup ==
    /\ SpecLookup
    /\ WF_vars(StartLookup)
    /\ WF_vars(InflectedResponse)
    /\ WF_vars(DirectResponse)
    /\ WF_vars(PartialResponse)
    /\ WF_vars(LookupsEnd)

\* seq is the beginning of Tiers
TiersPrefix(seq) == Len(seq) <= Len(Tiers) /\ \A k \in 1..Len(seq) : seq[k] = Tiers[k]

\* C30, as stated: every lookupWholeWord that has returned issued between 1
\* and 3 requests.
C30_OneToThreeRequests ==
    \A call \in 1..(lkIdx - 1) :
        Len(RequestsOf(call)) >= 1 /\ Len(RequestsOf(call)) <= 3

\* C30, amended: when every request settles, the lookup loop of a pass
\* ends; each lookupWholeWord issues the tiers in their order without
\* repeating one, at most 3 requests, and at least 1 unless the word cannot
\* be URI-encoded, in which case it issues none; a pass over n words issues
\* at most 3n requests.
C30_LookupsTerminate ==
    /\ [](\A call \in 1..Len(lkWords) :
             /\ TiersPrefix(RequestsOf(call))
             /\ call > lkIdx => RequestsOf(call) = <<>>
             /\ call < lkIdx =>
                   IF Encodable(lkWords[call])
                   THEN Len(RequestsOf(call)) >= 1
                   ELSE RequestsOf(call) = <<>>)
    /\ [](Len(requests) <= 3 * Len(lkWords))
    /\ <>[](lkPc = "end")

\* the loop has ended after a word that cannot be encoded, with no request,
\* and a word whose three tiers were all requested
C30_Witness ==
    /\ lkPc = "end"
    /\ lkWords = << <<"U">>, <<"T", "K">> >>
    /\ requests = <<Request(2, "inflected"), Request(2, "direct"),
                    Request(2, "partial")>>
====
